---- MODULE Spec2Model ----
(***************************************************************************)
(* A model of the WFDB header engine of wfdb/io/_header.py: the field      *)
(* specification tables, the write-field selector, the cohesion checks,    *)
(* the serializer of both record variants and the line parsers.            *)
(*                                                                         *)
(* Conventions of the model                                                *)
(*   - Python's None is the empty tuple <<>>, a present value v is <<v>>.  *)
(*   - Text is a TLA+ string; a character is a string of length 1.         *)
(*   - A number of a float-typed field is [isfloat, m, e]: the value       *)
(*     m / 10^e, with isfloat telling a Python float from a Python int.    *)
(*   - Python's 0-based channel ch is element ch + 1 of a vector.          *)
(*   - A raised exception is a record [type, at, about]; NoExc is "no      *)
(*     exception".                                                         *)
(***************************************************************************)
EXTENDS Integers, Sequences, FiniteSets, TLC

VARIABLES
    RECORD_SPECS,   \* the shared record field table
    SIGNAL_SPECS,   \* the shared signal field table
    SEGMENT_SPECS,  \* the shared segment field table
    self,           \* the entity (a Record or a MultiRecord)
    n_edits,        \* attribute assignments made on the entity so far
    text,           \* header lines waiting to be parsed (read path)
    out             \* what the last operation called on the entity returned

vars == <<RECORD_SPECS, SIGNAL_SPECS, SEGMENT_SPECS, self, n_edits, text, out>>

(***************************************************************************)
(* Bounds of the model.                                                    *)
(***************************************************************************)
MaxSig == 2
MaxSeg == 2
MaxEdits == 1
MaxLines == 1

\* the lines handed to one call of a line parser or header splitter
MaxParsed == 2

(***************************************************************************)
(* Option values, exceptions.                                              *)
(***************************************************************************)
None == <<>>

Some(v) == <<v>>

NoExc == [type |-> "None", at |-> "", about |-> ""]

Raise(type, at, about) == [type |-> type, at |-> at, about |-> about]

(***************************************************************************)
(* Characters and character classes of the three line patterns.            *)
(***************************************************************************)
Digit == {"0", "1", "2", "3", "4", "5", "6", "7", "8", "9"}

Letter ==
    {"a", "b", "c", "d", "e", "f", "g", "h", "i", "j", "k", "l", "m",
     "n", "o", "p", "q", "r", "s", "t", "u", "v", "w", "x", "y", "z",
     "A", "B", "C", "D", "E", "F", "G", "H", "I", "J", "K", "L", "M",
     "N", "O", "P", "Q", "R", "S", "T", "U", "V", "W", "X", "Y", "Z"}

WordCh == Letter \cup Digit \cup {"_"}

Blank == {" ", "\t"}

CharAt(s, i) == SubSeq(s, i, i)

(***************************************************************************)
(* str() of the values a header holds.                                     *)
(***************************************************************************)
DigitStr(d) ==
    CASE d = 0 -> "0" [] d = 1 -> "1" [] d = 2 -> "2" [] d = 3 -> "3"
      [] d = 4 -> "4" [] d = 5 -> "5" [] d = 6 -> "6" [] d = 7 -> "7"
      [] d = 8 -> "8" [] d = 9 -> "9"

RECURSIVE NatStr(_)
NatStr(n) == IF n < 10 THEN DigitStr(n) ELSE NatStr(n \div 10) \o DigitStr(n % 10)

\* str(int)
IntStr(n) == IF n < 0 THEN "-" \o NatStr(-n) ELSE NatStr(n)

RECURSIVE Pow10(_)
Pow10(e) == IF e = 0 THEN 1 ELSE 10 * Pow10(e - 1)

\* n written with exactly w digits (zero padded)
RECURSIVE PadStr(_, _)
PadStr(n, w) == IF w = 0 THEN "" ELSE PadStr(n \div 10, w - 1) \o DigitStr(n % 10)

\* a Python int held by a float-typed field
PyInt(n) == [isfloat |-> FALSE, m |-> n, e |-> 0]

\* the float m / 10^e, normalised so that equal floats are equal records
RECURSIVE PyFloat(_, _)
PyFloat(m, e) ==
    IF e > 0 /\ m % 10 = 0 THEN PyFloat(m \div 10, e - 1)
    ELSE [isfloat |-> TRUE, m |-> m, e |-> e]

Abs(n) == IF n < 0 THEN -n ELSE n

\* Python's == on numbers: an int equals the float of the same value
NumEq(a, b) == a.m * Pow10(b.e) = b.m * Pow10(a.e)

\* int(x): truncation toward zero
NumTrunc(x) ==
    IF x.m < 0 THEN -(Abs(x.m) \div Pow10(x.e)) ELSE x.m \div Pow10(x.e)

\* str(float) and str(int) of a number
NumStr(x) ==
    IF ~x.isfloat THEN IntStr(x.m)
    ELSE (IF x.m < 0 THEN "-" ELSE "")
         \o NatStr(Abs(x.m) \div Pow10(x.e)) \o "."
         \o (IF x.e = 0 THEN "0" ELSE PadStr(Abs(x.m) % Pow10(x.e), x.e))

\* str(datetime.time): HH:MM:SS, with .ffffff when microsecond is not 0
TimeStr(t) ==
    PadStr(t.h, 2) \o ":" \o PadStr(t.mi, 2) \o ":" \o PadStr(t.sec, 2)
    \o (IF t.us = 0 THEN "" ELSE "." \o PadStr(t.us, 6))

\* str(datetime.date): YYYY-MM-DD
DateStr(d) == PadStr(d.y, 4) \o "-" \o PadStr(d.mo, 2) \o "-" \o PadStr(d.d, 2)

\* s.rstrip("0")
RECURSIVE RStrip0(_)
RStrip0(s) ==
    IF Len(s) > 0 /\ CharAt(s, Len(s)) = "0" THEN RStrip0(SubSeq(s, 1, Len(s) - 1))
    ELSE s

\* "." in s
RECURSIVE HasChar(_, _)
HasChar(s, c) ==
    IF Len(s) = 0 THEN FALSE
    ELSE IF CharAt(s, 1) = c THEN TRUE ELSE HasChar(Tail(s), c)

(***************************************************************************)
(* The field specification tables.  A table is the sequence of its rows in *)
(* index order; a row carries the six specification columns.               *)
(***************************************************************************)
Row(name, types, delim, dep, req, rdef, wdef) ==
    [name |-> name, allowed_types |-> types, delimiter |-> delim,
     dependency |-> dep, write_required |-> req,
     read_default |-> rdef, write_default |-> wdef]

\* variant of RecordSpecsData: fs and sig_len depend on each other
\* (sensitivity of C27_WalksTerminate)
RecordSpecsCircular ==
    << Row("record_name",  "str",   "",  None,                 TRUE,  None, None),
       Row("n_seg",        "int",   "/", Some("record_name"),  TRUE,  None, None),
       Row("n_sig",        "int",   " ", Some("record_name"),  TRUE,  None, None),
       Row("fs",           "float", " ", Some("sig_len"),      TRUE,  Some(PyInt(250)), None),
       Row("counter_freq", "float", "/", Some("fs"),           FALSE, None, None),
       Row("base_counter", "float", "(", Some("counter_freq"), FALSE, None, None),
       Row("sig_len",      "int",   " ", Some("fs"),           TRUE,  None, None),
       Row("base_time",    "time",  " ", Some("sig_len"),      FALSE, None, Some("00:00:00")),
       Row("base_date",    "date",  " ", Some("base_time"),    FALSE, None, None) >>

RecordSpecsData ==
    << Row("record_name",  "str",   "",  None,                 TRUE,  None, None),
       Row("n_seg",        "int",   "/", Some("record_name"),  TRUE,  None, None),
       Row("n_sig",        "int",   " ", Some("record_name"),  TRUE,  None, None),
       Row("fs",           "float", " ", Some("n_sig"),        TRUE,  Some(PyInt(250)), None),
       Row("counter_freq", "float", "/", Some("fs"),           FALSE, None, None),
       Row("base_counter", "float", "(", Some("counter_freq"), FALSE, None, None),
       Row("sig_len",      "int",   " ", Some("fs"),           TRUE,  None, None),
       Row("base_time",    "time",  " ", Some("sig_len"),      FALSE, None, Some("00:00:00")),
       Row("base_date",    "date",  " ", Some("base_time"),    FALSE, None, None) >>

SignalSpecsData ==
    << Row("file_name",       "str",   "",  None,               TRUE,  None, None),
       Row("fmt",             "str",   " ", Some("file_name"),  TRUE,  None, None),
       Row("samps_per_frame", "int",   "x", Some("fmt"),        FALSE, Some(1), None),
       Row("skew",            "int",   ":", Some("fmt"),        FALSE, None, None),
       Row("byte_offset",     "int",   "+", Some("fmt"),        FALSE, None, None),
       Row("adc_gain",        "float", " ", Some("fmt"),        TRUE,  Some(PyFloat(200, 0)), None),
       Row("baseline",        "int",   "(", Some("adc_gain"),   TRUE,  Some(0), None),
       Row("units",           "str",   "/", Some("adc_gain"),   TRUE,  Some("mV"), None),
       Row("adc_res",         "int",   " ", Some("adc_gain"),   FALSE, None, Some(0)),
       Row("adc_zero",        "int",   " ", Some("adc_res"),    FALSE, None, Some(0)),
       Row("init_value",      "int",   " ", Some("adc_zero"),   FALSE, None, None),
       Row("checksum",        "int",   " ", Some("init_value"), FALSE, None, None),
       Row("block_size",      "int",   " ", Some("checksum"),   FALSE, None, Some(0)),
       Row("sig_name",        "str",   " ", Some("block_size"), FALSE, None, None) >>

SegmentSpecsData ==
    << Row("seg_name", "str", "",  None,             TRUE, None, None),
       Row("seg_len",  "int", " ", Some("seg_name"), TRUE, None, None) >>

\* DataFrame.index: the row names in order
Index(specs) == [i \in 1..Len(specs) |-> specs[i].name]

\* field in specs.index
InIndex(specs, field) == \E i \in 1..Len(specs) : specs[i].name = field

\* specs.loc[field]: the row of the field (the caller has checked InIndex)
Loc(specs, field) == specs[CHOOSE i \in 1..Len(specs) : specs[i].name = field]

\* specs.drop(field): the table without the row
Drop(specs, field) == SelectSeq(specs, LAMBDA r : r.name # field)

\* seq[-1::-1]
Reverse(seq) == [i \in 1..Len(seq) |-> seq[Len(seq) + 1 - i]]

\* x in list
InList(list, x) == \E i \in 1..Len(list) : list[i] = x

\* set(list)
Names(seq) == {seq[i] : i \in 1..Len(seq)}

RecordFieldNames == Index(RecordSpecsData)

SignalFieldNames == Index(SignalSpecsData)

SegmentFieldNames == Index(SegmentSpecsData)

\* str(getattr(self, field)) for a value of the given kind
StrOf(kind, v) ==
    IF v = None THEN "None"
    ELSE CASE kind = "str"   -> v[1]
           [] kind = "int"   -> IntStr(v[1])
           [] kind = "float" -> NumStr(v[1])
           [] kind = "time"  -> IF v[1].isstr THEN v[1].str ELSE TimeStr(v[1])
           [] kind = "date"  -> DateStr(v[1])

\* a datetime.time (isstr tells it from a str held by base_time)
Time(h, mi, sec, us) == [isstr |-> FALSE, h |-> h, mi |-> mi, sec |-> sec, us |-> us]

\* the str "00:00:00" that the write default puts into base_time
TimeText(s) == [isstr |-> TRUE, str |-> s]

Date(y, mo, d) == [y |-> y, mo |-> mo, d |-> d]

(***************************************************************************)
(* The write-field selector.                                               *)
(***************************************************************************)
\* hasattr(self, "n_seg"): only a MultiRecord has the attribute
HasNSeg(e) == e.cls = "MultiRecord"

\* variant of RecordSpecsAfterSubset: n_seg dropped from the shared table
\* itself (sensitivity of C2_SelectionIdempotent)
RecordSpecsDroppedInPlace(e, specs) ==
    IF HasNSeg(e) THEN specs ELSE SelectSeq(specs, LAMBDA row : row.name # "n_seg")

\* The shared record table after get_write_subset("record") has run: the
\* method drops n_seg from a copy, so the shared table is as before.
RecordSpecsAfterSubset(e, specs) == specs

\* variant of DependencyChain: the field without the fields it depends on
\* (sensitivity of C18_WriteSetClosure)
DependencyChainFieldOnly(specs, field) == <<field>>

\* the while loop: the field, then its dependency, and so on up to None
RECURSIVE DependencyChain(_, _)
DependencyChain(specs, field) ==
    LET dep == Loc(specs, field).dependency
    IN  <<field>> \o (IF dep = None THEN <<>> ELSE DependencyChain(specs, dep[1]))

\* the for loop over record_specs.index[-1::-1], from position i on
RECURSIVE SelectRecordFrom(_, _, _, _)
SelectRecordFrom(e, specs, i, write_fields) ==
    IF i > Len(specs) THEN write_fields
    ELSE LET row == specs[Len(specs) + 1 - i]
         IN  IF InList(write_fields, row.name)
             THEN SelectRecordFrom(e, specs, i + 1, write_fields)
             ELSE IF row.write_required \/ e[row.name] # None
             THEN SelectRecordFrom(e, specs, i + 1,
                                   write_fields \o DependencyChain(specs, row.name))
             ELSE SelectRecordFrom(e, specs, i + 1, write_fields)

\* variant of GetWriteSubsetRecord: the n_seg row is kept for every entity
\* (sensitivity of C26_NSegOnlyMulti)
GetWriteSubsetRecordKeepingNSeg(e, shared) ==
    LET fields == SelectRecordFrom(e, shared, 1, <<>>)
    IN  [exc |-> NoExc,
         val |-> IF e.comments # None THEN Append(fields, "comments") ELSE fields]

\* get_write_subset("record"): [exc, val]
GetWriteSubsetRecord(e, shared) ==
    IF ~HasNSeg(e) /\ ~InIndex(shared, "n_seg")
    THEN [exc |-> Raise("KeyError", "get_write_subset", "n_seg"), val |-> <<>>]
    ELSE LET record_specs == IF HasNSeg(e) THEN shared ELSE Drop(shared, "n_seg")
             fields == SelectRecordFrom(e, record_specs, 1, <<>>)
         IN  [exc |-> NoExc,
              val |-> IF e.comments # None THEN Append(fields, "comments") ELSE fields]

\* the inner for loop over signal_specs.index[-1::-1] for channel ch, from
\* position i on; acc is [exc, val]
RECURSIVE SelectChannelFrom(_, _, _, _, _)
SelectChannelFrom(e, specs, ch, i, acc) ==
    IF i > Len(specs) \/ acc.exc # NoExc THEN acc
    ELSE LET row == specs[Len(specs) + 1 - i]
             item == e[row.name]
             add == [acc EXCEPT !.val = @ \o DependencyChain(specs, row.name)]
         IN  IF InList(acc.val, row.name)
             THEN SelectChannelFrom(e, specs, ch, i + 1, acc)
             ELSE IF row.write_required
             THEN SelectChannelFrom(e, specs, ch, i + 1, add)
             ELSE IF item = None
             THEN SelectChannelFrom(e, specs, ch, i + 1, acc)
             ELSE IF ch + 1 > Len(item[1])
             THEN [acc EXCEPT !.exc = Raise("IndexError", "get_write_subset", row.name)]
             ELSE IF item[1][ch + 1] # None
             THEN SelectChannelFrom(e, specs, ch, i + 1, add)
             ELSE SelectChannelFrom(e, specs, ch, i + 1, acc)

\* write_fields_ch of channel ch
SelectChannel(e, specs, ch) ==
    SelectChannelFrom(e, specs, ch, 1, [exc |-> NoExc, val |-> <<>>])

\* range(n)
Range(n) == [i \in 1..n |-> i - 1]

\* the outer for loop over range(self.n_sig), from channel ch on: the
\* write_fields_ch of each channel
RECURSIVE SelectChannelsFrom(_, _, _)
SelectChannelsFrom(e, specs, ch) ==
    IF ch >= e.n_sig[1] THEN <<>>
    ELSE <<SelectChannel(e, specs, ch)>> \o SelectChannelsFrom(e, specs, ch + 1)

\* variant of GetWriteSubsetSignal: every key lists every channel
\* (sensitivity of C20_PerChannelMerge)
GetWriteSubsetSignalAllChannels(e, specs) ==
    LET n == e.n_sig[1]
        perch == SelectChannelsFrom(e, specs, 0)
        bad == {ch \in 0..(n - 1) : perch[ch + 1].exc # NoExc}
        keys == {f \in Names(SignalFieldNames) :
                    \E ch \in 0..(n - 1) : InList(perch[ch + 1].val, f)}
    IN  IF bad # {}
        THEN [exc |-> perch[(CHOOSE ch \in bad : \A c \in bad : ch <= c) + 1].exc,
              val |-> <<>>]
        ELSE [exc |-> NoExc, val |-> [f \in keys |-> Range(n)]]

\* get_write_subset("signal"): [exc, val], val the field -> channels map
GetWriteSubsetSignal(e, specs) ==
    LET n == e.n_sig[1]
        perch == SelectChannelsFrom(e, specs, 0)
        bad == {ch \in 0..(n - 1) : perch[ch + 1].exc # NoExc}
        keys == {f \in Names(SignalFieldNames) :
                    \E ch \in 0..(n - 1) : InList(perch[ch + 1].val, f)}
    IN  IF bad # {}
        THEN [exc |-> perch[(CHOOSE ch \in bad : \A c \in bad : ch <= c) + 1].exc,
              val |-> <<>>]
        ELSE [exc |-> NoExc,
              val |-> [f \in keys |->
                          SelectSeq(Range(n), LAMBDA ch : InList(perch[ch + 1].val, f))]]

\* BaseRecord.check_field, as far as the header engine relies on it: a field
\* the header needs must be set, in every channel that needs it.
CheckField(e, field, required_channels) ==
    IF field = "comments" THEN NoExc
    ELSE IF e[field] = None THEN Raise("Exception", "check_field", field)
    ELSE IF \E i \in 1..Len(required_channels) :
                /\ required_channels[i] + 1 <= Len(e[field][1])
                /\ e[field][1][required_channels[i] + 1] = None
    THEN Raise("ValueError", "check_field", field)
    ELSE NoExc

\* HeaderMixin.get_write_fields: [exc, rec, sig]
GetWriteFields(e, shared, sigspecs) ==
    LET r == GetWriteSubsetRecord(e, shared)
        rec == IF e.comments # None THEN Append(r.val, "comments") ELSE r.val
        c == CheckField(e, "n_sig", <<>>)
        s == GetWriteSubsetSignal(e, sigspecs)
    IN  IF r.exc # NoExc THEN [exc |-> r.exc, rec |-> <<>>, sig |-> None]
        ELSE IF c # NoExc THEN [exc |-> c, rec |-> <<>>, sig |-> None]
        ELSE IF e.n_sig[1] > 0
        THEN IF s.exc # NoExc THEN [exc |-> s.exc, rec |-> <<>>, sig |-> None]
             ELSE [exc |-> NoExc, rec |-> rec, sig |-> Some(s.val)]
        ELSE [exc |-> NoExc, rec |-> rec, sig |-> None]

\* MultiHeaderMixin.get_write_fields: [exc, rec, sig], sig always None
MultiGetWriteFields(e, shared) ==
    LET r == GetWriteSubsetRecord(e, shared)
        w == r.val \o <<"seg_name", "seg_len">>
    IN  IF r.exc # NoExc THEN [exc |-> r.exc, rec |-> <<>>, sig |-> None]
        ELSE [exc |-> NoExc,
              rec |-> IF e.comments # None THEN Append(w, "comments") ELSE w,
              sig |-> None]

(***************************************************************************)
(* The cohesion checks.  A check gives the set of exceptions it can end    *)
(* with (NoExc: it returns): the order in which the keys of the signal     *)
(* write-field map are visited is the order of a Python set of strings,    *)
(* which differs from one interpreter run to the next.                     *)
(***************************************************************************)
\* the first channel (0-based) whose file_name is that of channel ch
FirstWithFile(e, ch) ==
    CHOOSE c \in 0..ch :
        /\ e.file_name[1][c + 1] = e.file_name[1][ch + 1]
        /\ \A d \in 0..(c - 1) : e.file_name[1][d + 1] # e.file_name[1][ch + 1]

\* variant of FmtLoopRaises: the formats are not compared (sensitivity of
\* C6_FmtPerFile)
FmtLoopNeverRaises(e) == FALSE

\* the datfmts loop raises
FmtLoopRaises(e) ==
    \E ch \in 0..(e.n_sig[1] - 1) :
        e.fmt[1][FirstWithFile(e, ch) + 1] # e.fmt[1][ch + 1]

\* the channels the datoffsets loop does not skip
WithOffset(e) == {ch \in 0..(e.n_sig[1] - 1) : e.byte_offset[1][ch + 1] # None}

\* the first channel with a byte offset whose file_name is that of channel ch
FirstOffsetWithFile(e, ch) ==
    CHOOSE c \in WithOffset(e) :
        /\ e.file_name[1][c + 1] = e.file_name[1][ch + 1]
        /\ \A d \in WithOffset(e) :
              e.file_name[1][d + 1] = e.file_name[1][ch + 1] => c <= d

\* variant of OffsetLoopRaises: a channel without byte offset is compared
\* like any other (sensitivity of C7_OffsetPerFile)
OffsetLoopCountingAbsent(e) ==
    /\ e.byte_offset # None
    /\ \E ch \in 0..(e.n_sig[1] - 1) :
          e.byte_offset[1][FirstWithFile(e, ch) + 1] # e.byte_offset[1][ch + 1]

\* the datoffsets loop raises
OffsetLoopRaises(e) ==
    /\ e.byte_offset # None
    /\ \E ch \in WithOffset(e) :
          e.byte_offset[1][FirstOffsetWithFile(e, ch) + 1] # e.byte_offset[1][ch + 1]

\* HeaderMixin.check_field_cohesion(rec_write_fields, sig_write_fields)
CheckFieldCohesion(e, rec_write_fields, sig_write_fields) ==
    LET n == e.n_sig[1]
        unset == {f \in sig_write_fields : e[f] = None}
        wrong == {f \in sig_write_fields : e[f] # None /\ Len(e[f][1]) # n}
    IN  IF n <= 0 THEN {NoExc}
        ELSE IF unset \cup wrong # {}
        THEN {Raise("TypeError", "check_field_cohesion", f) : f \in unset}
             \cup {Raise("ValueError", "check_field_cohesion", f) : f \in wrong}
        ELSE IF FmtLoopRaises(e)
        THEN {Raise("ValueError", "check_field_cohesion", "same fmt")}
        ELSE IF e.byte_offset # None /\ Len(e.byte_offset[1]) < n
        THEN {Raise("IndexError", "check_field_cohesion", "byte_offset")}
        ELSE IF OffsetLoopRaises(e)
        THEN {Raise("ValueError", "check_field_cohesion", "same byte offset")}
        ELSE {NoExc}

\* np.sum(self.seg_len)
RECURSIVE SumSeq(_)
SumSeq(seq) == IF Len(seq) = 0 THEN 0 ELSE Head(seq)[1] + SumSeq(Tail(seq))

\* variant of MultiCheckFieldCohesion: the sum is not compared with sig_len
\* (sensitivity of C3_MultiCohesion)
MultiCheckLengthsOnly(e) ==
    IF e.seg_name = None
    THEN Raise("TypeError", "check_field_cohesion", "seg_name")
    ELSE IF e.n_seg = None \/ Len(e.seg_name[1]) # e.n_seg[1]
    THEN Raise("ValueError", "check_field_cohesion", "seg_name")
    ELSE IF e.seg_len = None
    THEN Raise("TypeError", "check_field_cohesion", "seg_len")
    ELSE IF Len(e.seg_len[1]) # e.n_seg[1]
    THEN Raise("ValueError", "check_field_cohesion", "seg_len")
    ELSE NoExc

\* variant of MultiCheckFieldCohesion: the "~" segments are left out of the
\* sum (sensitivity of C4_PlaceholdersCounted)
MultiCheckSkippingPlaceholders(e) ==
    LET counted == [i \in 1..Len(e.seg_len[1]) |->
                       IF e.seg_name[1][i] = Some("~") THEN Some(0) ELSE e.seg_len[1][i]]
    IN  IF MultiCheckLengthsOnly(e) # NoExc THEN MultiCheckLengthsOnly(e)
        ELSE IF \E i \in 1..Len(counted) : counted[i] = None
        THEN Raise("TypeError", "check_field_cohesion", "sum of seg_len")
        ELSE IF e.sig_len = None \/ SumSeq(counted) # e.sig_len[1]
        THEN Raise("ValueError", "check_field_cohesion", "sum of seg_len")
        ELSE NoExc

\* MultiHeaderMixin.check_field_cohesion()
MultiCheckFieldCohesion(e) ==
    IF e.seg_name = None
    THEN Raise("TypeError", "check_field_cohesion", "seg_name")
    ELSE IF e.n_seg = None \/ Len(e.seg_name[1]) # e.n_seg[1]
    THEN Raise("ValueError", "check_field_cohesion", "seg_name")
    ELSE IF e.seg_len = None
    THEN Raise("TypeError", "check_field_cohesion", "seg_len")
    ELSE IF Len(e.seg_len[1]) # e.n_seg[1]
    THEN Raise("ValueError", "check_field_cohesion", "seg_len")
    ELSE IF \E i \in 1..Len(e.seg_len[1]) : e.seg_len[1][i] = None
    THEN Raise("TypeError", "check_field_cohesion", "sum of seg_len")
    ELSE IF e.sig_len = None \/ SumSeq(e.seg_len[1]) # e.sig_len[1]
    THEN Raise("ValueError", "check_field_cohesion", "sum of seg_len")
    ELSE NoExc

(***************************************************************************)
(* The serializer.                                                         *)
(***************************************************************************)
\* the Python type of the values a field holds
KindOf(field) ==
    Loc(RecordSpecsData \o SignalSpecsData \o SegmentSpecsData, field).allowed_types

Min(a, b) == IF a < b THEN a ELSE b

\* s[a:b]
Slice(s, a, b) == SubSeq(s, a + 1, Min(b, Len(s)))

\* round(x, 8)
Round8(x) ==
    IF x.e <= 8 THEN x
    ELSE PyFloat((x.m + 5 * Pow10(x.e - 9)) \div Pow10(x.e - 8), 8)

\* round(fs, 8) == float(int(fs))
IsIntegral(x) == NumEq(Round8(x), PyInt(NumTrunc(x)))

\* string_field of a record field in HeaderMixin.wr_header_file
StringField(e, field) ==
    LET string_field == StrOf(KindOf(field), e[field])
    IN  IF field = "fs" /\ e.fs # None /\ e.fs[1].isfloat
        THEN IF IsIntegral(e.fs[1]) THEN IntStr(NumTrunc(e.fs[1])) ELSE string_field
        ELSE IF field = "base_time" /\ HasChar(string_field, ".")
        THEN RStrip0(string_field)
        ELSE IF field = "base_date"
        THEN Slice(string_field, 8, Len(string_field)) \o "/"
             \o Slice(string_field, 5, 7) \o "/" \o Slice(string_field, 0, 4)
        ELSE string_field

\* record_line of HeaderMixin.wr_header_file, from row i of the table on
RECURSIVE RecordLineFrom(_, _, _, _)
RecordLineFrom(e, specs, rec_write_fields, i) ==
    IF i > Len(specs) THEN ""
    ELSE LET row == specs[i]
         IN  (IF InList(rec_write_fields, row.name)
              THEN row.delimiter \o StringField(e, row.name)
                   \o (IF row.name = "base_counter" THEN ")" ELSE "")
              ELSE "")
             \o RecordLineFrom(e, specs, rec_write_fields, i + 1)

\* signal_lines[ch] of HeaderMixin.wr_header_file, from row i of the table on
RECURSIVE SignalLineFrom(_, _, _, _, _)
SignalLineFrom(e, specs, sig_write_fields, ch, i) ==
    IF i > Len(specs) THEN ""
    ELSE LET row == specs[i]
         IN  (IF row.name \in DOMAIN sig_write_fields
                 /\ InList(sig_write_fields[row.name], ch)
              THEN row.delimiter \o StrOf(row.allowed_types, e[row.name][1][ch + 1])
              ELSE "")
             \o (IF row.name = "baseline" THEN ")" ELSE "")
             \o SignalLineFrom(e, specs, sig_write_fields, ch, i + 1)

\* ["# " + comment for comment in self.comments]
CommentLines(e) == [i \in 1..Len(e.comments[1]) |-> "# " \o e.comments[1][i]]

\* variant of WrHeaderFile: the comment lines come before the signal lines
\* (sensitivity of C16_LineOrder)
WrHeaderFileCommentsFirst(e, recspecs, sigspecs, rec_write_fields, sig_write_fields) ==
    <<RecordLineFrom(e, recspecs, rec_write_fields, 1)>>
    \o (IF InList(rec_write_fields, "comments") THEN CommentLines(e) ELSE <<>>)
    \o (IF e.n_sig[1] > 0
        THEN [c \in 1..e.n_sig[1] |->
                 SignalLineFrom(e, sigspecs, sig_write_fields[1], c - 1, 1)]
        ELSE <<>>)

\* HeaderMixin.wr_header_file: the header_lines given to util.lines_to_file
WrHeaderFile(e, recspecs, sigspecs, rec_write_fields, sig_write_fields) ==
    <<RecordLineFrom(e, recspecs, rec_write_fields, 1)>>
    \o (IF e.n_sig[1] > 0
        THEN [c \in 1..e.n_sig[1] |->
                 SignalLineFrom(e, sigspecs, sig_write_fields[1], c - 1, 1)]
        ELSE <<>>)
    \o (IF InList(rec_write_fields, "comments") THEN CommentLines(e) ELSE <<>>)

\* record_line of MultiHeaderMixin.wr_header_file, from row i of the table on
RECURSIVE MultiRecordLineFrom(_, _, _, _)
MultiRecordLineFrom(e, specs, write_fields, i) ==
    IF i > Len(specs) THEN ""
    ELSE LET row == specs[i]
         IN  (IF InList(write_fields, row.name)
              THEN row.delimiter \o StrOf(row.allowed_types, e[row.name])
              ELSE "")
             \o MultiRecordLineFrom(e, specs, write_fields, i + 1)

\* segment_lines[seg_num] of MultiHeaderMixin.wr_header_file
RECURSIVE SegmentLineFrom(_, _, _, _)
SegmentLineFrom(e, specs, seg_num, i) ==
    IF i > Len(specs) THEN ""
    ELSE specs[i].delimiter
         \o StrOf(specs[i].allowed_types, e[specs[i].name][1][seg_num + 1])
         \o SegmentLineFrom(e, specs, seg_num, i + 1)

\* MultiHeaderMixin.wr_header_file: the header_lines given to
\* util.lines_to_file
MultiWrHeaderFile(e, recspecs, segspecs, write_fields) ==
    <<MultiRecordLineFrom(e, recspecs, write_fields, 1)>>
    \o [s \in 1..e.n_seg[1] |-> SegmentLineFrom(e, segspecs, s - 1, 1)]
    \o (IF InList(write_fields, "comments") THEN CommentLines(e) ELSE <<>>)

(***************************************************************************)
(* wrheader.  A call gives the set of results it can end with; a result is *)
(* [trace, exc, handed, lines]: the steps entered, the exception raised    *)
(* (NoExc: none), whether util.lines_to_file was called, and the lines it  *)
(* was called with.                                                        *)
(***************************************************************************)
WriteSteps == <<"get_write_fields", "check_field", "check_field_cohesion", "wr_header_file">>

Raised(k, exc) ==
    [trace |-> SubSeq(WriteSteps, 1, k), exc |-> exc, handed |-> FALSE, lines |-> <<>>]

Written(lines) ==
    [trace |-> WriteSteps, exc |-> NoExc, handed |-> TRUE, lines |-> lines]

\* the exception of the first field of the list that check_field rejects
RECURSIVE FirstCheckField(_, _)
FirstCheckField(e, fields) ==
    IF Len(fields) = 0 THEN NoExc
    ELSE IF CheckField(e, Head(fields), <<>>) # NoExc
    THEN CheckField(e, Head(fields), <<>>)
    ELSE FirstCheckField(e, Tail(fields))

\* variant of WrHeaderAfterSelect: the record line is handed to the writer
\* before the cohesion check (sensitivity of C8_WriteOrder)
WrHeaderWritingFirst(e, recspecs, sigspecs, w) ==
    LET r == FirstCheckField(e, w.rec)
        keys == DOMAIN w.sig[1]
        bad == {f \in keys : CheckField(e, f, w.sig[1][f]) # NoExc}
        coh == CheckFieldCohesion(e, w.rec, keys)
        line == <<RecordLineFrom(e, recspecs, w.rec, 1)>>
    IN  IF r # NoExc THEN {Raised(2, r)}
        ELSE IF w.sig = None
        THEN {Raised(2, Raise("TypeError", "wrheader", "sig_write_fields"))}
        ELSE IF bad # {}
        THEN {Raised(2, CheckField(e, f, w.sig[1][f])) : f \in bad}
        ELSE IF coh # {NoExc}
        THEN {[trace |-> WriteSteps, exc |-> x, handed |-> TRUE, lines |-> line] : x \in coh}
        ELSE {Written(WrHeaderFile(e, recspecs, sigspecs, w.rec, w.sig))}

\* the steps of HeaderMixin.wrheader after get_write_fields returned w
WrHeaderAfterSelect(e, recspecs, sigspecs, w) ==
    LET r == FirstCheckField(e, w.rec)
        keys == DOMAIN w.sig[1]
        bad == {f \in keys : CheckField(e, f, w.sig[1][f]) # NoExc}
        coh == CheckFieldCohesion(e, w.rec, keys)
    IN  IF r # NoExc THEN {Raised(2, r)}
        ELSE IF w.sig = None
        THEN {Raised(2, Raise("TypeError", "wrheader", "sig_write_fields"))}
        ELSE IF bad # {}
        THEN {Raised(2, CheckField(e, f, w.sig[1][f])) : f \in bad}
        ELSE IF coh # {NoExc} THEN {Raised(3, x) : x \in coh}
        ELSE {Written(WrHeaderFile(e, recspecs, sigspecs, w.rec, w.sig))}

\* HeaderMixin.wrheader
WrHeader(e, recspecs, sigspecs) ==
    LET w == GetWriteFields(e, recspecs, sigspecs)
    IN  IF w.exc # NoExc THEN {Raised(1, w.exc)}
        ELSE WrHeaderAfterSelect(e, recspecs, sigspecs, w)

\* the steps of MultiHeaderMixin.wrheader after get_write_fields returned w
MultiWrHeaderAfterSelect(e, recspecs, segspecs, w) ==
    LET r == FirstCheckField(e, w.rec)
        coh == MultiCheckFieldCohesion(e)
    IN  IF r # NoExc THEN {Raised(2, r)}
        ELSE IF coh # NoExc THEN {Raised(3, coh)}
        ELSE {Written(MultiWrHeaderFile(e, recspecs, segspecs, w.rec))}

\* MultiHeaderMixin.wrheader
MultiWrHeader(e, recspecs, segspecs) ==
    LET w == MultiGetWriteFields(e, recspecs)
    IN  IF w.exc # NoExc THEN {Raised(1, w.exc)}
        ELSE MultiWrHeaderAfterSelect(e, recspecs, segspecs, w)

(***************************************************************************)
(* The line patterns.  A pattern is the sequence of its items; an item is  *)
(* a character class with a greedy repetition min..max (max -1: no limit)  *)
(* and the number g of the group it belongs to (0: none).                  *)
(***************************************************************************)
Of(set) == [neg |-> FALSE, set |-> set]

NotOf(set) == [neg |-> TRUE, set |-> set]

InClass(c, cls) == IF cls.neg THEN c \notin cls.set ELSE c \in cls.set

Item(cls, min, max, g) == [cls |-> cls, min |-> min, max |-> max, g |-> g]

Star(cls, g) == Item(cls, 0, -1, g)

Plus(cls, g) == Item(cls, 1, -1, g)

Opt(cls, g) == Item(cls, 0, 1, g)

UpTo(cls, n, g) == Item(cls, 0, n, g)

\* -?\d*\.?\d* in group g
SignedDecimal(g) ==
    <<Opt(Of({"-"}), g), Star(Of(Digit), g), Opt(Of({"."}), g), Star(Of(Digit), g)>>

rx_record ==
    <<Star(Of(Blank), 0), Plus(Of(WordCh \cup {"-"}), 1),
      Opt(Of({"/"}), 0), Star(Of(Digit), 2),
      Plus(Of(Blank), 0), Plus(Of(Digit), 3),
      Star(Of(Blank), 0), Star(Of(Digit), 4), Opt(Of({"."}), 4), Star(Of(Digit), 4),
      Star(Of({"/"}), 0)>> \o SignedDecimal(5)
    \o <<Opt(Of({"("}), 0)>> \o SignedDecimal(6) \o <<Opt(Of({")"}), 0),
      Star(Of(Blank), 0), Star(Of(Digit), 7),
      Star(Of(Blank), 0), UpTo(Of(Digit), 2, 8), Opt(Of({":"}), 8),
      UpTo(Of(Digit), 2, 8), Opt(Of({":"}), 8), UpTo(Of(Digit), 2, 8),
      Opt(Of({"."}), 8), UpTo(Of(Digit), 6, 8),
      Star(Of(Blank), 0), UpTo(Of(Digit), 2, 9), Opt(Of({"/"}), 9),
      UpTo(Of(Digit), 2, 9), Opt(Of({"/"}), 9), UpTo(Of(Digit), 4, 9)>>

rx_signal ==
    <<Star(Of(Blank), 0), Opt(Of({"~"}), 1), Star(Of(WordCh \cup {"-"}), 1),
      Opt(Of({"."}), 1), Star(Of(WordCh), 1),
      Plus(Of(Blank), 0), Plus(Of(Digit), 2),
      Opt(Of({"x"}), 0), Star(Of(Digit), 3),
      Opt(Of({":"}), 0), Star(Of(Digit), 4),
      Opt(Of({"+"}), 0), Star(Of(Digit), 5),
      Star(Of(Blank), 0)>> \o SignedDecimal(6)
    \o <<Opt(Of({"e"}), 6), Opt(Of({"+", "-"}), 6), Star(Of(Digit), 6),
      Opt(Of({"("}), 0), Opt(Of({"-"}), 7), Star(Of(Digit), 7), Opt(Of({")"}), 0),
      Opt(Of({"/"}), 0), Star(Of(WordCh \cup {"^", "-", "?", "%", "/"}), 8),
      Star(Of(Blank), 0), Star(Of(Digit), 9),
      Star(Of(Blank), 0), Opt(Of({"-"}), 10), Star(Of(Digit), 10),
      Star(Of(Blank), 0), Opt(Of({"-"}), 11), Star(Of(Digit), 11),
      Star(Of(Blank), 0), Opt(Of({"-"}), 12), Star(Of(Digit), 12),
      Star(Of(Blank), 0), Star(Of(Digit), 13),
      Star(Of(Blank), 0), Opt(NotOf(Blank \cup {"\n", "\r", "\f"}), 14),
      Star(NotOf({"\t", "\n", "\r", "\f"}), 14)>>

rx_segment ==
    <<Star(Of(Blank), 0), Star(Of(WordCh \cup {"-"}), 1), Opt(Of({"~"}), 1),
      Plus(Of(Blank), 0), Plus(Of(Digit), 2)>>

\* how many characters of s from position pos on are in the class, at most
\* cap of them (cap -1: no limit)
RECURSIVE RunLength(_, _, _, _)
RunLength(s, pos, cls, cap) ==
    IF cap = 0 \/ pos > Len(s) \/ ~InClass(CharAt(s, pos), cls) THEN 0
    ELSE 1 + RunLength(s, pos + 1, cls, IF cap < 0 THEN cap ELSE cap - 1)

\* ns[1] + .. + ns[k]
RECURSIVE SumTo(_, _)
SumTo(ns, k) == IF k = 0 THEN 0 ELSE ns[k] + SumTo(ns, k - 1)

\* the numbers of characters item k may take at position pos
Takes(rx, s, k, pos) == rx[k].min..RunLength(s, pos, rx[k].cls, rx[k].max)

\* for each of the items i..j, the positions at which that item can end
\* when the items i.. are matched from one of the positions from
RECURSIVE Reach(_, _, _, _, _)
Reach(rx, s, i, j, from) ==
    IF i = j
    THEN <<UNION {{pos + n : n \in Takes(rx, s, i, pos)} : pos \in from}>>
    ELSE LET mid == (i + j) \div 2
             left == Reach(rx, s, i, mid, from)
         IN  IF Len(left) = 0 THEN <<>>
             ELSE left \o Reach(rx, s, mid + 1, j, left[Len(left)])

\* for each of the items i..j, the positions from which that item and all
\* the items after it match, given the positions from which the items after
\* j match (at[k]: the positions at which item k can start)
RECURSIVE CanMatch(_, _, _, _, _, _)
CanMatch(rx, s, at, i, j, after) ==
    IF i = j
    THEN <<{pos \in at[i] : \E n \in Takes(rx, s, i, pos) : pos + n \in after}>>
    ELSE LET mid == (i + j) \div 2
             right == CanMatch(rx, s, at, mid + 1, j, after)
         IN  IF Len(right) = 0 THEN <<>>
             ELSE LET left == CanMatch(rx, s, at, i, mid, right[1])
                  IN  IF Len(left) = 0 THEN <<>> ELSE left \o right

\* the number of characters each of the items i..j consumes in the match
\* from position pos: an item takes the longest run first and gives back one
\* character at a time, until the items after it match (can[k]: the
\* positions from which the items k.. match)
RECURSIVE Consumed(_, _, _, _, _, _)
Consumed(rx, s, can, i, j, pos) ==
    IF i = j
    THEN LET ok == {n \in Takes(rx, s, i, pos) : pos + n \in can[i + 1]}
         IN  <<CHOOSE n \in ok : \A m \in ok : m <= n>>
    ELSE LET mid == (i + j) \div 2
             left == Consumed(rx, s, can, i, mid, pos)
         IN  IF Len(left) = 0 THEN <<>>
             ELSE left \o Consumed(rx, s, can, mid + 1, j, pos + SumTo(left, Len(left)))

\* variant of MatchFrom: the match has to reach the end of s, as re.fullmatch
\* (sensitivity of C13_PrefixMatch)
MatchFromWholeLine(rx, s) ==
    LET at == <<{1}>> \o Reach(rx, s, 1, Len(rx), {1})
        end == at[Len(rx) + 1] \cap {Len(s) + 1}
        can == CanMatch(rx, s, at, 1, Len(rx), end) \o <<end>>
    IN  IF Len(at) = 0 \/ 1 \notin can[1] THEN <<>>
        ELSE <<Consumed(rx, s, can, 1, Len(rx), 1)>>

\* re.match from position 1: <<>> when nothing matches, else <<ns>>, ns the
\* number of characters each item consumes (the match need not reach the
\* end of s)
MatchFrom(rx, s) ==
    LET at == <<{1}>> \o Reach(rx, s, 1, Len(rx), {1})
        end == at[Len(rx) + 1]
        can == CanMatch(rx, s, at, 1, Len(rx), end) \o <<end>>
    IN  IF Len(at) = 0 \/ 1 \notin can[1] THEN <<>>
        ELSE <<Consumed(rx, s, can, 1, Len(rx), 1)>>

\* match.groups(): the text of groups 1..n of a match ns
Groups(rx, s, ns, n) ==
    [g \in 1..n |->
        LET items == {k \in 1..Len(rx) : rx[k].g = g}
            first == CHOOSE k \in items : \A j \in items : k <= j
            last == CHOOSE k \in items : \A j \in items : j <= k
        IN  SubSeq(s, SumTo(ns, first - 1) + 1, SumTo(ns, last))]

\* rx.match(line): <<>> for None, else <<groups>>
Match(rx, line, n) ==
    LET m == MatchFrom(rx, line)
    IN  IF m = <<>> THEN <<>> ELSE <<Groups(rx, line, m[1], n)>>

(***************************************************************************)
(* int() and float() of a string: <<>> when Python raises ValueError.      *)
(***************************************************************************)
DigitVal(c) ==
    CASE c = "0" -> 0 [] c = "1" -> 1 [] c = "2" -> 2 [] c = "3" -> 3
      [] c = "4" -> 4 [] c = "5" -> 5 [] c = "6" -> 6 [] c = "7" -> 7
      [] c = "8" -> 8 [] c = "9" -> 9

AllDigits(s) == \A i \in 1..Len(s) : CharAt(s, i) \in Digit

RECURSIVE NatVal(_)
NatVal(s) ==
    IF Len(s) = 0 THEN 0
    ELSE 10 * NatVal(SubSeq(s, 1, Len(s) - 1)) + DigitVal(CharAt(s, Len(s)))

HasSign(s) == Len(s) > 0 /\ CharAt(s, 1) \in {"+", "-"}

Unsigned(s) == IF HasSign(s) THEN Tail(s) ELSE s

Signed(s, n) == IF HasSign(s) /\ CharAt(s, 1) = "-" THEN -n ELSE n

\* int(s)
PyIntOf(s) ==
    IF Len(Unsigned(s)) > 0 /\ AllDigits(Unsigned(s))
    THEN Some(Signed(s, NatVal(Unsigned(s))))
    ELSE None

\* the position of the first character c of s, 0 when there is none
RECURSIVE Find(_, _, _)
Find(s, c, i) ==
    IF i > Len(s) THEN 0 ELSE IF CharAt(s, i) = c THEN i ELSE Find(s, c, i + 1)

\* the float of mantissa text (digits, one optional ".") times 10^x
Scaled(mant, x) ==
    LET dot == Find(mant, ".", 1)
        whole == IF dot = 0 THEN mant ELSE SubSeq(mant, 1, dot - 1)
        frac == IF dot = 0 THEN "" ELSE SubSeq(mant, dot + 1, Len(mant))
        e == Len(frac) - x
    IN  IF Len(whole) + Len(frac) = 0 \/ ~AllDigits(whole) \/ ~AllDigits(frac)
        THEN None
        ELSE IF e >= 0 THEN Some(PyFloat(NatVal(whole \o frac), e))
        ELSE Some(PyFloat(NatVal(whole \o frac) * Pow10(-e), 0))

\* float(s), for the decimal and exponent forms
PyFloatOf(s) ==
    LET body == Unsigned(s)
        ex == Find(body, "e", 1)
        mant == IF ex = 0 THEN body ELSE SubSeq(body, 1, ex - 1)
        expo == IF ex = 0 THEN Some(0) ELSE PyIntOf(SubSeq(body, ex + 1, Len(body)))
        v == Scaled(mant, expo[1])
    IN  IF expo = None THEN None
        ELSE IF v = None THEN None
        ELSE Some([v[1] EXCEPT !.m = Signed(s, v[1].m)])

(***************************************************************************)
(* The line parsers.  A parser gives [exc, val].                           *)
(***************************************************************************)
\* line.strip()
RECURSIVE Strip(_)
Strip(s) ==
    IF Len(s) > 0 /\ CharAt(s, 1) \in Blank \cup {"\n", "\r", "\f"} THEN Strip(Tail(s))
    ELSE IF Len(s) > 0 /\ CharAt(s, Len(s)) \in Blank \cup {"\n", "\r", "\f"}
    THEN Strip(SubSeq(s, 1, Len(s) - 1))
    ELSE s

\* parse_header_content, from the lines that splitlines() gives
ParseHeaderContent(lines) ==
    LET stripped == [i \in 1..Len(lines) |-> Strip(lines[i])]
    IN  [header_lines |->
            SelectSeq(stripped, LAMBDA l : Len(l) > 0 /\ CharAt(l, 1) # "#"),
         comment_lines |->
            SelectSeq(stripped, LAMBDA l : Len(l) > 0 /\ CharAt(l, 1) = "#")]

\* streamheader, from the lines that splitlines() gives of the content that
\* was fetched: a header line is cut at its first "#"
RECURSIVE StreamHeaderFrom(_, _, _)
StreamHeaderFrom(filelines, i, acc) ==
    IF i > Len(filelines) THEN acc
    ELSE LET line == Strip(filelines[i])
             ci == Find(line, "#", 1) - 1
         IN  StreamHeaderFrom(filelines, i + 1,
                IF Len(line) > 0 /\ CharAt(line, 1) = "#"
                THEN [acc EXCEPT !.comment_lines = Append(@, line)]
                ELSE IF Len(line) = 0 THEN acc
                ELSE IF ci > 0
                THEN [header_lines  |-> Append(acc.header_lines, Slice(line, 0, ci)),
                      comment_lines |-> Append(acc.comment_lines, Slice(line, ci, Len(line)))]
                ELSE [acc EXCEPT !.header_lines = Append(@, line)])

StreamHeader(filelines) ==
    StreamHeaderFrom(filelines, 1, [header_lines |-> <<>>, comment_lines |-> <<>>])

\* time_string.count(c)
RECURSIVE CountChar(_, _)
CountChar(s, c) ==
    IF Len(s) = 0 THEN 0
    ELSE (IF CharAt(s, 1) = c THEN 1 ELSE 0) + CountChar(Tail(s), c)

\* the largest value of the directives %H, %M, %S of strptime
MaxOf(directive) == CASE directive = "H" -> 23 [] directive = "M" -> 59 [] directive = "S" -> 61

\* the digits from pos on, at most cap of them
RECURSIVE DigitRun(_, _, _)
DigitRun(s, pos, cap) ==
    IF cap = 0 \/ pos > Len(s) \/ CharAt(s, pos) \notin Digit THEN ""
    ELSE CharAt(s, pos) \o DigitRun(s, pos + 1, cap - 1)

\* what a directive of strptime takes at pos: two digits when they spell a
\* value of the directive, else one digit; %f takes up to six digits, which
\* count as the leading digits of the microseconds
TakeDirective(s, pos, directive) ==
    IF directive = "f"
    THEN LET run == DigitRun(s, pos, 6)
         IN  IF run = "" THEN <<>>
             ELSE <<NatVal(run) * Pow10(6 - Len(run)), pos + Len(run)>>
    ELSE LET run == DigitRun(s, pos, 2)
         IN  IF run = "" THEN <<>>
             ELSE IF Len(run) = 2 /\ NatVal(run) <= MaxOf(directive)
             THEN <<NatVal(run), pos + 2>>
             ELSE <<NatVal(CharAt(run, 1)), pos + 1>>

\* datetime.datetime.strptime(s, time_fmt).time(), time_fmt the sequence of
\* its directives and literals, from element i and position pos on; got
\* holds the values of the directives before.  <<>>: ValueError.
RECURSIVE Strptime(_, _, _, _, _)
Strptime(s, time_fmt, i, pos, got) ==
    IF i > Len(time_fmt)
    THEN IF pos # Len(s) + 1 \/ got.S > 59 THEN <<>>
         ELSE <<Time(got.H, got.M, got.S, got.f)>>
    ELSE IF time_fmt[i] \in {":", "."}
    THEN IF pos <= Len(s) /\ CharAt(s, pos) = time_fmt[i]
         THEN Strptime(s, time_fmt, i + 1, pos + 1, got)
         ELSE <<>>
    ELSE LET t == TakeDirective(s, pos, time_fmt[i])
         IN  IF t = <<>> THEN <<>>
             ELSE Strptime(s, time_fmt, i + 1, t[2], [got EXCEPT ![time_fmt[i]] = t[1]])

\* variant of WfdbStrptime: one colon read as hours:minutes (sensitivity of
\* C15_TimeShapes)
WfdbStrptimeHoursFirst(time_string) ==
    LET n_colons == CountChar(time_string, ":")
        shape == CASE n_colons = 0 -> <<"S">>
                   [] n_colons = 1 -> <<"H", ":", "M">>
                   [] OTHER        -> <<"H", ":", "M", ":", "S">>
        time_fmt == IF HasChar(time_string, ".") THEN shape \o <<".", "f">> ELSE shape
        t == Strptime(time_string, time_fmt, 1, 1, [H |-> 0, M |-> 0, S |-> 0, f |-> 0])
    IN  IF n_colons > 2
        THEN [exc |-> Raise("UnboundLocalError", "wfdb_strptime", "time_fmt"), val |-> None]
        ELSE IF t = <<>>
        THEN [exc |-> Raise("ValueError", "wfdb_strptime", time_string), val |-> None]
        ELSE [exc |-> NoExc, val |-> t]

\* wfdb_strptime: more than two colons leave time_fmt unbound
WfdbStrptime(time_string) ==
    LET n_colons == CountChar(time_string, ":")
        shape == CASE n_colons = 0 -> <<"S">>
                   [] n_colons = 1 -> <<"M", ":", "S">>
                   [] OTHER        -> <<"H", ":", "M", ":", "S">>
        time_fmt == IF HasChar(time_string, ".") THEN shape \o <<".", "f">> ELSE shape
        t == Strptime(time_string, time_fmt, 1, 1, [H |-> 0, M |-> 0, S |-> 0, f |-> 0])
    IN  IF n_colons > 2
        THEN [exc |-> Raise("UnboundLocalError", "wfdb_strptime", "time_fmt"), val |-> None]
        ELSE IF t = <<>>
        THEN [exc |-> Raise("ValueError", "wfdb_strptime", time_string), val |-> None]
        ELSE [exc |-> NoExc, val |-> t]

\* variant of ParseRecordLine: match is not compared with None, so that
\* match.groups() fails on a line that does not match (sensitivity of
\* C14_SyntaxErrorFixedMessage)
ParseRecordLineUnchecked(record_line) ==
    IF Match(rx_record, record_line, 9) = <<>>
    THEN [exc |-> Raise("AttributeError", "_parse_record_line", "groups"), val |-> None]
    ELSE [exc |-> Raise("NameError", "_parse_record_line", "field"), val |-> None]

\* _parse_record_line: the loop over the captures reads the name `field`,
\* which nothing binds, at its first turn (record_name is never empty)
ParseRecordLine(record_line) ==
    IF Match(rx_record, record_line, 9) = <<>>
    THEN [exc |-> Raise("HeaderSyntaxError", "_parse_record_line",
                       "Invalid syntax in record line"),
          val |-> None]
    ELSE [exc |-> Raise("NameError", "_parse_record_line", "field"), val |-> None]

\* variant of SignalValue: an adc_gain of 0 is kept (sensitivity of
\* C9_GainZeroFolding)
SignalValueUnfolded(specs, groups, i) ==
    LET row == specs[i]
        raw == groups[i]
        adc_zero == groups[10]
    IN  IF raw = ""
        THEN IF row.name = "baseline" /\ adc_zero # ""
             THEN IF PyIntOf(adc_zero) = None THEN <<>> ELSE <<PyIntOf(adc_zero)>>
             ELSE <<row.read_default>>
        ELSE IF row.allowed_types = "int"
        THEN IF PyIntOf(raw) = None THEN <<>> ELSE <<PyIntOf(raw)>>
        ELSE IF row.allowed_types = "float"
        THEN IF PyFloatOf(raw) = None THEN <<>> ELSE <<PyFloatOf(raw)>>
        ELSE <<Some(raw)>>

\* the value _parse_signal_lines stores for the field of row i, from the
\* captures of one line: <<>> when the cast raises ValueError, else <<value>>
\* (value itself None or a present value)
SignalValue(specs, groups, i) ==
    LET row == specs[i]
        raw == groups[i]
        adc_zero == groups[10]
    IN  IF raw = ""
        THEN IF row.name = "baseline" /\ adc_zero # ""
             THEN IF PyIntOf(adc_zero) = None THEN <<>> ELSE <<PyIntOf(adc_zero)>>
             ELSE <<row.read_default>>
        ELSE IF row.allowed_types = "int"
        THEN IF PyIntOf(raw) = None THEN <<>> ELSE <<PyIntOf(raw)>>
        ELSE IF row.allowed_types = "float"
        THEN IF PyFloatOf(raw) = None THEN <<>>
             ELSE IF row.name = "adc_gain" /\ NumEq(PyFloatOf(raw)[1], PyInt(0))
             THEN <<Some(PyFloat(200, 0))>>
             ELSE <<PyFloatOf(raw)>>
        ELSE <<Some(raw)>>

\* one turn of the loop over the lines in _parse_signal_lines: val holds the
\* value of each row of the table for the line
ParseSignalLine(specs, line) ==
    LET m == Match(rx_signal, line, 14)
        cast == [i \in 1..Len(specs) |-> SignalValue(specs, m[1], i)]
    IN  IF m = <<>>
        THEN [exc |-> Raise("HeaderSyntaxError", "_parse_signal_lines",
                          "invalid syntax in signal line"),
              val |-> None]
        ELSE IF \E i \in 1..Len(specs) : cast[i] = <<>>
        THEN [exc |-> Raise("ValueError", "_parse_signal_lines", "cast"), val |-> None]
        ELSE [exc |-> NoExc, val |-> Some([i \in 1..Len(specs) |-> cast[i][1]])]

\* the loop over the lines from line ch on; done holds the values of the
\* lines before
RECURSIVE ParseSignalLinesFrom(_, _, _, _)
ParseSignalLinesFrom(specs, signal_lines, ch, done) ==
    IF ch > Len(signal_lines)
    THEN [exc |-> NoExc,
          val |-> Some([f \in Names(Index(specs)) |->
                    [c \in 1..Len(done) |->
                        done[c][CHOOSE i \in 1..Len(specs) : specs[i].name = f]]])]
    ELSE LET r == ParseSignalLine(specs, signal_lines[ch])
         IN  IF r.exc # NoExc THEN r
             ELSE ParseSignalLinesFrom(specs, signal_lines, ch + 1, Append(done, r.val[1]))

\* _parse_signal_lines: val maps each signal field to its list of values
ParseSignalLines(specs, signal_lines) == ParseSignalLinesFrom(specs, signal_lines, 1, <<>>)

\* one turn of the loop over the lines in _read_segment_lines: the captures
\* of the line, seg_len cast with int()
ReadSegmentLine(line) ==
    LET m == Match(rx_segment, line, 2)
    IN  IF m = <<>>
        THEN [exc |-> Raise("HeaderSyntaxError", "_read_segment_lines",
                          "invalid syntax in segment line"),
              val |-> None]
        ELSE IF PyIntOf(m[1][2]) = None
        THEN [exc |-> Raise("ValueError", "_read_segment_lines", "cast"), val |-> None]
        ELSE [exc |-> NoExc, val |-> Some(<<Some(m[1][1]), PyIntOf(m[1][2])>>)]

\* the loop over the lines from line i on; done holds the values of the
\* lines before
RECURSIVE ReadSegmentLinesFrom(_, _, _)
ReadSegmentLinesFrom(segment_lines, i, done) ==
    IF i > Len(segment_lines)
    THEN [exc |-> NoExc,
          val |-> Some([seg_name |-> [k \in 1..Len(done) |-> done[k][1]],
                        seg_len  |-> [k \in 1..Len(done) |-> done[k][2]]])]
    ELSE LET r == ReadSegmentLine(segment_lines[i])
         IN  IF r.exc # NoExc THEN r
             ELSE ReadSegmentLinesFrom(segment_lines, i + 1, Append(done, r.val[1]))

\* _read_segment_lines: val maps seg_name and seg_len to their lists
ReadSegmentLines(segment_lines) == ReadSegmentLinesFrom(segment_lines, 1, <<>>)

(***************************************************************************)
(* The default resolver.  fields is a dict: a function from the names it   *)
(* holds to their values.  The result is [exc, val], val the value         *)
(* returned (None: Python's None).                                         *)
(***************************************************************************)
\* WFDB_FIELDS = dict(**RECORD_FIELDS): is_required of the record fields
WFDB_FIELDS ==
    [f \in {"record_name", "n_seg", "n_sig", "fs", "counter_freq", "base_counter",
            "sig_len", "base_time", "base_date"} |->
        [is_required |-> f \in {"record_name", "n_sig"}]]

\* _signal.DIFFERENCE_FMTS
DIFFERENCE_FMTS == {"8"}

\* _signal.BIT_RES
BIT_RES ==
    [fmt \in {"8", "16", "24", "32", "61", "80", "160", "212", "310", "311"} |->
        CASE fmt \in {"8", "80"}          -> 8
          [] fmt \in {"16", "61", "160"}  -> 16
          [] fmt = "24"                   -> 24
          [] fmt = "32"                   -> 32
          [] fmt = "212"                  -> 12
          [] fmt \in {"310", "311"}       -> 10]

Returned(v) == [exc |-> NoExc, val |-> v]

Failed(type, about) == [exc |-> Raise(type, "get_field_default", about), val |-> None]

\* get_field_default(fields, field_name)
GetFieldDefault(fields, field_name) ==
    IF field_name \notin DOMAIN WFDB_FIELDS THEN Failed("KeyError", field_name)
    ELSE IF WFDB_FIELDS[field_name].is_required THEN Failed("ValueError", field_name)
    ELSE IF field_name = "counter_freq"
    THEN IF "fs" \notin DOMAIN fields THEN Failed("HeaderSyntaxError", "fs")
         ELSE Returned(fields["fs"])
    ELSE IF field_name \in {"baseline", "init_value"}
    THEN IF "adc_zero" \notin DOMAIN fields THEN Failed("HeaderSyntaxError", "adc_zero")
         ELSE Returned(fields["adc_zero"])
    ELSE IF field_name = "adc_res"
    THEN IF "fmt" \notin DOMAIN fields THEN Failed("HeaderSyntaxError", "fmt")
         ELSE IF fields["fmt"] = None \/ fields["fmt"][1] \notin DOMAIN BIT_RES
         THEN Failed("KeyError", "fmt")
         ELSE Returned(Some(Min(IF fields["fmt"][1] \in DIFFERENCE_FMTS THEN 10 ELSE 12,
                                BIT_RES[fields["fmt"][1]])))
    ELSE IF field_name = "n_seg" THEN Returned(None)
    ELSE IF field_name = "fs" THEN Returned(Some(PyInt(250)))
    ELSE IF field_name = "base_counter" THEN Returned(Some(PyInt(0)))
    ELSE Returned(None)

(***************************************************************************)
(* The entities: a Record (single-segment) or a MultiRecord, as their      *)
(* constructors leave them, and the values the caller assigns.             *)
(***************************************************************************)
Filled(n, v) == [i \in 1..n |-> Some(v)]

Unset(names) == [f \in names |-> None]

(***************************************************************************)
(* set_defaults.  A result of set_default is [exc, e]: the exception       *)
(* raised (NoExc: none) and the entity the call leaves.                    *)
(***************************************************************************)
\* _signal._fmt_res(fmt) on the list of formats: the bits of each format
FmtRes(fmt) ==
    IF \E i \in 1..Len(fmt) : fmt[i] = None \/ fmt[i][1] \notin DOMAIN BIT_RES
    THEN [exc |-> Raise("Exception", "_fmt_res", "fmt"), val |-> <<>>]
    ELSE [exc |-> NoExc, val |-> [i \in 1..Len(fmt) |-> Some(BIT_RES[fmt[i][1]])]]

\* the attribute value of a write default: the default of base_time is a str
AsAttribute(field, write_default) ==
    IF field = "base_time" THEN TimeText(write_default) ELSE write_default

\* HeaderMixin.set_default(field)
SetDefault(e, recspecs, sigspecs, field) ==
    IF InIndex(recspecs, field)
    THEN LET d == Loc(recspecs, field).write_default
         IN  IF d = None \/ e[field] # None THEN [exc |-> NoExc, e |-> e]
             ELSE [exc |-> NoExc,
                   e |-> [e EXCEPT ![field] = Some(AsAttribute(field, d[1]))]]
    ELSE IF InIndex(sigspecs, field)
    THEN LET d == Loc(sigspecs, field).write_default
         IN  IF field = "file_name" /\ e.file_name = None
             THEN [exc |-> NoExc,
                   e |-> [e EXCEPT !.file_name =
                             Some(Filled(e.n_sig[1], e.record_name[1] \o ".dat"))]]
             ELSE IF d = None \/ e[field] # None THEN [exc |-> NoExc, e |-> e]
             ELSE IF field = "adc_res" /\ e.fmt # None
             THEN IF FmtRes(e.fmt[1]).exc # NoExc
                  THEN [exc |-> FmtRes(e.fmt[1]).exc, e |-> e]
                  ELSE [exc |-> NoExc,
                        e |-> [e EXCEPT !.adc_res = Some(FmtRes(e.fmt[1]).val)]]
             ELSE [exc |-> NoExc,
                   e |-> [e EXCEPT ![field] = Some(Filled(e.n_sig[1], d[1]))]]
    ELSE [exc |-> NoExc, e |-> e]

\* for f in fields: self.set_default(f), from position i of the list on
RECURSIVE SetDefaultsFrom(_, _, _, _, _)
SetDefaultsFrom(e, recspecs, sigspecs, fields, i) ==
    IF i > Len(fields) THEN [exc |-> NoExc, e |-> e]
    ELSE LET r == SetDefault(e, recspecs, sigspecs, fields[i])
         IN  IF r.exc # NoExc THEN r
             ELSE SetDefaultsFrom(r.e, recspecs, sigspecs, fields, i + 1)

\* the keys of the signal map in one of the orders a dict built from a set
\* of strings can have: a call of set_default reads fmt, n_sig and
\* record_name and assigns its own field only, so that the order matters
\* when a call raises and not otherwise
KeyOrders(keys) ==
    {order \in [1..Cardinality(keys) -> keys] :
        \A i, j \in 1..Cardinality(keys) : order[i] = order[j] => i = j}

\* the keys whose set_default raises or assigns
ActiveKeys(e, recspecs, sigspecs, keys) ==
    {f \in keys : SetDefault(e, recspecs, sigspecs, f) # [exc |-> NoExc, e |-> e]}

\* HeaderMixin.set_defaults: the set of results [exc, e] it can end with
SetDefaults(e, recspecs, sigspecs) ==
    LET w == GetWriteFields(e, recspecs, sigspecs)
        r == SetDefaultsFrom(e, recspecs, sigspecs, w.rec, 1)
    IN  IF w.exc # NoExc THEN {[exc |-> w.exc, e |-> e]}
        ELSE IF r.exc # NoExc THEN {r}
        ELSE IF w.sig = None
        THEN {[exc |-> Raise("TypeError", "set_defaults", "sfields"), e |-> r.e]}
        ELSE {SetDefaultsFrom(r.e, recspecs, sigspecs, order, 1) :
                 order \in KeyOrders(ActiveKeys(r.e, recspecs, sigspecs, DOMAIN w.sig[1]))}

\* MultiHeaderMixin.set_default(field): `field in RECORD_SPECS` looks the
\* name up among the columns of the table, where no field name is
MultiSetDefault(e, recspecs, field) ==
    IF field \in {"allowed_types", "delimiter", "dependency", "write_required",
                  "read_default", "write_default"}
    THEN [exc |-> Raise("AttributeError", "set_default", "write_def"), e |-> e]
    ELSE [exc |-> NoExc, e |-> e]

\* for field in self.get_write_fields(): self.set_default(field)
RECURSIVE MultiSetDefaultsFrom(_, _, _, _)
MultiSetDefaultsFrom(e, recspecs, fields, i) ==
    IF i > Len(fields) THEN [exc |-> NoExc, e |-> e]
    ELSE LET r == MultiSetDefault(e, recspecs, fields[i])
         IN  IF r.exc # NoExc THEN r
             ELSE MultiSetDefaultsFrom(r.e, recspecs, fields, i + 1)

\* MultiHeaderMixin.set_defaults: the set of results [exc, e]
MultiSetDefaults(e, recspecs) ==
    LET w == MultiGetWriteFields(e, recspecs)
    IN  IF w.exc # NoExc THEN {[exc |-> w.exc, e |-> e]}
        ELSE {MultiSetDefaultsFrom(e, recspecs, w.rec, 1)}

AllFieldNames ==
    Names(RecordFieldNames) \cup Names(SignalFieldNames) \cup Names(SegmentFieldNames)
    \cup {"comments"}

\* a Record of n channels with its write-required fields set
NewRecord(n) ==
    [f \in AllFieldNames \cup {"cls"} |->
        CASE f = "cls"         -> "Record"
          [] f = "record_name" -> Some("rec")
          [] f = "n_sig"       -> Some(n)
          [] f = "fs"          -> Some(PyInt(250))
          [] f = "sig_len"     -> Some(2)
          [] f = "file_name"   -> IF n = 0 THEN None ELSE Some(Filled(n, "a.dat"))
          [] f = "fmt"         -> IF n = 0 THEN None ELSE Some(Filled(n, "16"))
          [] f = "adc_gain"    -> IF n = 0 THEN None ELSE Some(Filled(n, PyFloat(200, 0)))
          [] f = "baseline"    -> IF n = 0 THEN None ELSE Some(Filled(n, 0))
          [] f = "units"       -> IF n = 0 THEN None ELSE Some(Filled(n, "mV"))
          [] OTHER             -> None]

\* a Record of n channels that all start at byte 0 of their file
RecordWithOffsets(n) == [NewRecord(n) EXCEPT !.byte_offset = Some(Filled(n, 0))]

\* a MultiRecord of k segments of one sample each
NewMultiRecord(k) ==
    [f \in AllFieldNames \cup {"cls"} |->
        CASE f = "cls"         -> "MultiRecord"
          [] f = "record_name" -> Some("rec")
          [] f = "n_seg"       -> Some(k)
          [] f = "n_sig"       -> Some(1)
          [] f = "fs"          -> Some(PyInt(250))
          [] f = "sig_len"     -> Some(k)
          [] f = "seg_name"    -> Some([i \in 1..k |-> Some("s" \o NatStr(i))])
          [] f = "seg_len"     -> Some(Filled(k, 1))
          [] OTHER             -> None]

\* the entity with a counter: counter_freq and base_counter set
WithCounter(e) ==
    [e EXCEPT !.counter_freq = Some(PyInt(10)), !.base_counter = Some(PyFloat(2, 0))]

\* the fields that hold one value per channel or per segment
VectorFields(e) ==
    IF e.cls = "Record" THEN Names(SignalFieldNames) ELSE Names(SegmentFieldNames)

\* the scalar values a caller assigns to an attribute
ScalarValues(e, f) ==
    CASE f = "n_sig" /\ e.cls = "Record"      -> 0..MaxSig
      [] f = "n_seg" /\ e.cls = "MultiRecord" -> 1..MaxSeg
      [] f = "fs"           -> {PyFloat(360, 0), PyFloat(3605, 1)}
      [] f = "counter_freq" -> {PyInt(10)}
      [] f = "base_counter" -> {PyFloat(2, 0)}
      [] f = "sig_len"      -> {2, 3}
      [] f = "base_time"    -> {Time(0, 1, 12, 0), Time(0, 1, 12, 500000)}
      [] f = "base_date"    -> {Date(2001, 2, 3)}
      [] f = "comments"     -> {<<"note">>, <<"n1", "n2">>}
      [] OTHER              -> {}

\* the values a caller assigns to one slot of a vector
ItemValues(f) ==
    CASE f = "file_name"       -> {"b.dat"}
      [] f = "fmt"             -> {"8"}
      [] f = "samps_per_frame" -> {2}
      [] f = "skew"            -> {1}
      [] f = "byte_offset"     -> {0, 5}
      [] f = "adc_gain"        -> {PyFloat(25, 1)}
      [] f = "baseline"        -> {-3}
      [] f = "adc_res"         -> {12}
      [] f = "adc_zero"        -> {5}
      [] f = "init_value"      -> {7}
      [] f = "checksum"        -> {9}
      [] f = "block_size"      -> {0}
      [] f = "sig_name"        -> {"I"}
      [] f = "seg_name"        -> {"~"}
      [] f = "seg_len"         -> {0, 2}
      [] OTHER                 -> {}

\* the length of a vector the caller builds: one slot per channel or segment
Slots(e) == IF e.cls = "Record" THEN e.n_sig[1] ELSE e.n_seg[1]

Idle == [op |-> "none"]

(***************************************************************************)
(* The caller's assignments.  An assignment drops the last result.         *)
(***************************************************************************)
\* self.f = v
SetAttr(f, v) ==
    /\ n_edits < MaxEdits
    /\ self[f] # Some(v)
    /\ self' = [self EXCEPT ![f] = Some(v)]
    /\ n_edits' = n_edits + 1
    /\ out' = Idle
    /\ UNCHANGED <<RECORD_SPECS, SIGNAL_SPECS, SEGMENT_SPECS, text>>

\* self.f[i] = v, on a vector of None values when self.f is not set yet
SetItem(f, i, v) ==
    LET old == IF self[f] = None THEN [k \in 1..Slots(self) |-> None] ELSE self[f][1]
    IN  /\ n_edits < MaxEdits
        /\ i + 1 <= Len(old)
        /\ old[i + 1] # Some(v)
        /\ self' = [self EXCEPT ![f] = Some([old EXCEPT ![i + 1] = Some(v)])]
        /\ n_edits' = n_edits + 1
        /\ out' = Idle
        /\ UNCHANGED <<RECORD_SPECS, SIGNAL_SPECS, SEGMENT_SPECS, text>>

\* self.f.pop()
PopItem(f) ==
    /\ n_edits < MaxEdits
    /\ self[f] # None
    /\ Len(self[f][1]) > 0
    /\ self' = [self EXCEPT ![f] = Some(SubSeq(self[f][1], 1, Len(self[f][1]) - 1))]
    /\ n_edits' = n_edits + 1
    /\ out' = Idle
    /\ UNCHANGED <<RECORD_SPECS, SIGNAL_SPECS, SEGMENT_SPECS, text>>

\* self.f.append(None)
AppendNone(f) ==
    /\ n_edits < MaxEdits
    /\ self[f] # None
    /\ Len(self[f][1]) <= Slots(self)
    /\ self' = [self EXCEPT ![f] = Some(Append(self[f][1], None))]
    /\ n_edits' = n_edits + 1
    /\ out' = Idle
    /\ UNCHANGED <<RECORD_SPECS, SIGNAL_SPECS, SEGMENT_SPECS, text>>

(***************************************************************************)
(* The calls on the entity.                                                *)
(***************************************************************************)
\* get_write_fields() of either variant
WriteFieldsOf(e, recspecs, sigspecs) ==
    IF e.cls = "Record" THEN GetWriteFields(e, recspecs, sigspecs)
    ELSE MultiGetWriteFields(e, recspecs)

\* self.get_write_fields(), at most twice in a row
CallGetWriteFields ==
    /\ \/ out.op = "none"
       \/ out.op = "get_write_fields" /\ out.prev = None
    /\ out' = [op |-> "get_write_fields",
               prev |-> IF out.op = "none" THEN None ELSE Some(out.last),
               last |-> WriteFieldsOf(self, RECORD_SPECS, SIGNAL_SPECS)]
    /\ RECORD_SPECS' = RecordSpecsAfterSubset(self, RECORD_SPECS)
    /\ UNCHANGED <<SIGNAL_SPECS, SEGMENT_SPECS, self, n_edits, text>>

\* self.get_write_subset(spec_type); "signal" on a Record, as get_write_fields
\* calls it
CallGetWriteSubset(spec_type) ==
    /\ out.op = "none"
    /\ spec_type = "signal" => self.cls = "Record"
    /\ LET r == IF spec_type = "record" THEN GetWriteSubsetRecord(self, RECORD_SPECS)
                ELSE GetWriteSubsetSignal(self, SIGNAL_SPECS)
       IN  out' = [op |-> "get_write_subset", spec_type |-> spec_type,
                   exc |-> r.exc, val |-> r.val]
    /\ RECORD_SPECS' = IF spec_type = "record"
                       THEN RecordSpecsAfterSubset(self, RECORD_SPECS)
                       ELSE RECORD_SPECS
    /\ UNCHANGED <<SIGNAL_SPECS, SEGMENT_SPECS, self, n_edits, text>>

\* self.check_field_cohesion(rec_write_fields, list(sig_write_fields)) with
\* the lists that get_write_fields returned
CallCheckFieldCohesion ==
    /\ self.cls = "Record"
    /\ out.op = "get_write_fields"
    /\ out.last.exc = NoExc
    /\ \E x \in CheckFieldCohesion(self, out.last.rec,
                  IF out.last.sig = None THEN {} ELSE DOMAIN out.last.sig[1]) :
          out' = [op |-> "check_field_cohesion", exc |-> x]
    /\ UNCHANGED <<RECORD_SPECS, SIGNAL_SPECS, SEGMENT_SPECS, self, n_edits, text>>

\* self.check_field_cohesion() of a MultiRecord
CallMultiCheckFieldCohesion ==
    /\ self.cls = "MultiRecord"
    /\ out.op = "none"
    /\ out' = [op |-> "check_field_cohesion", exc |-> MultiCheckFieldCohesion(self)]
    /\ UNCHANGED <<RECORD_SPECS, SIGNAL_SPECS, SEGMENT_SPECS, self, n_edits, text>>

\* self.wrheader() of a Record
CallWrHeader ==
    /\ self.cls = "Record"
    /\ out.op = "none"
    /\ \E r \in WrHeader(self, RECORD_SPECS, SIGNAL_SPECS) :
          out' = [op |-> "wrheader", trace |-> r.trace, exc |-> r.exc,
                  handed |-> r.handed, lines |-> r.lines]
    /\ RECORD_SPECS' = RecordSpecsAfterSubset(self, RECORD_SPECS)
    /\ UNCHANGED <<SIGNAL_SPECS, SEGMENT_SPECS, self, n_edits, text>>

\* self.wrheader() of a MultiRecord
CallMultiWrHeader ==
    /\ self.cls = "MultiRecord"
    /\ out.op = "none"
    /\ \E r \in MultiWrHeader(self, RECORD_SPECS, SEGMENT_SPECS) :
          out' = [op |-> "wrheader", trace |-> r.trace, exc |-> r.exc,
                  handed |-> r.handed, lines |-> r.lines]
    /\ RECORD_SPECS' = RecordSpecsAfterSubset(self, RECORD_SPECS)
    /\ UNCHANGED <<SIGNAL_SPECS, SEGMENT_SPECS, self, n_edits, text>>

\* self.set_defaults(), at most twice in a row; out keeps the entity and the
\* write fields of before the call
CallSetDefaults ==
    /\ \/ out.op = "none"
       \/ out.op = "set_defaults" /\ out.calls = 1
    /\ \E r \in IF self.cls = "Record"
                 THEN SetDefaults(self, RECORD_SPECS, SIGNAL_SPECS)
                 ELSE MultiSetDefaults(self, RECORD_SPECS) :
          /\ self' = r.e
          /\ out' = [op |-> "set_defaults",
                     calls |-> IF out.op = "none" THEN 1 ELSE 2,
                     exc |-> r.exc,
                     before |-> self,
                     fields |-> WriteFieldsOf(self, RECORD_SPECS, SIGNAL_SPECS)]
    /\ RECORD_SPECS' = RecordSpecsAfterSubset(self, RECORD_SPECS)
    /\ UNCHANGED <<SIGNAL_SPECS, SEGMENT_SPECS, n_edits, text>>

\* the parsers on the lines that the wrheader() of a Record handed to the
\* writer: the first header line is the record line, the others are the
\* signal lines
ReadBack ==
    /\ self.cls = "Record"
    /\ out.op = "wrheader"
    /\ out.handed
    /\ LET content == ParseHeaderContent(out.lines)
       IN  out' = [op |-> "read_back",
                   lines |-> out.lines,
                   record |-> ParseRecordLine(content.header_lines[1]),
                   signals |-> ParseSignalLines(SIGNAL_SPECS, Tail(content.header_lines)),
                   comment_lines |-> content.comment_lines]
    /\ UNCHANGED <<RECORD_SPECS, SIGNAL_SPECS, SEGMENT_SPECS, self, n_edits, text>>

(***************************************************************************)
(* The write path: an entity, the caller's assignments, the calls.         *)
(***************************************************************************)
Init ==
    /\ RECORD_SPECS = RecordSpecsData
    /\ SIGNAL_SPECS = SignalSpecsData
    /\ SEGMENT_SPECS = SegmentSpecsData
    /\ self \in {NewRecord(n) : n \in 0..MaxSig}
                \cup {RecordWithOffsets(n) : n \in 1..MaxSig}
                \cup {NewMultiRecord(k) : k \in 1..MaxSeg}
                \cup {WithCounter(NewRecord(1)), WithCounter(NewMultiRecord(1))}
    /\ n_edits = 0
    /\ text = <<>>
    /\ out = Idle

Next ==
    \/ \E f \in AllFieldNames : \E v \in ScalarValues(self, f) : SetAttr(f, v)
    \/ \E f \in VectorFields(self) : \E i \in 0..(Slots(self) - 1) :
          \E v \in ItemValues(f) : SetItem(f, i, v)
    \/ \E f \in VectorFields(self) : PopItem(f)
    \/ \E f \in VectorFields(self) : AppendNone(f)
    \/ CallGetWriteFields
    \/ CallSetDefaults
    \/ \E spec_type \in {"record", "signal"} : CallGetWriteSubset(spec_type)
    \/ CallCheckFieldCohesion
    \/ CallMultiCheckFieldCohesion
    \/ CallWrHeader
    \/ CallMultiWrHeader
    \/ ReadBack

Spec == Init /\ [][Next]_vars

(***************************************************************************)
(* The read path: signal lines of a header file, and the signal-line       *)
(* parser on them.  text holds the signal lines read so far.               *)
(***************************************************************************)
\* the adc_gain tokens of the lines: absent, zero in several spellings,
\* non-zero, and not a number
GainTokens ==
    {"", "0", "0.0", "-0", "-0.0", "0e2", "00.", "2.5", "200", "1e2", "-2", "-", "."}

BaselineTokens == {"", "(-3)"}

TailTokens == {"", " 12 5"}

\* a signal line of the given tokens
SignalLineOf(gain, baseline, rest) ==
    "a.dat 16" \o (IF gain = "" THEN "" ELSE " " \o gain) \o baseline \o "/mV" \o rest

\* one more signal line in the file
PutSignalLine(line) ==
    /\ Len(text) < MaxLines
    /\ text' = Append(text, line)
    /\ out' = Idle
    /\ UNCHANGED <<RECORD_SPECS, SIGNAL_SPECS, SEGMENT_SPECS, self, n_edits>>

\* _parse_signal_lines(text)
CallParseSignalLines ==
    /\ Len(text) > 0
    /\ out.op = "none"
    /\ LET r == ParseSignalLines(SIGNAL_SPECS, text)
       IN  out' = [op |-> "_parse_signal_lines", exc |-> r.exc, val |-> r.val]
    /\ UNCHANGED <<RECORD_SPECS, SIGNAL_SPECS, SEGMENT_SPECS, self, n_edits, text>>

InitRead ==
    /\ RECORD_SPECS = RecordSpecsData
    /\ SIGNAL_SPECS = SignalSpecsData
    /\ SEGMENT_SPECS = SegmentSpecsData
    /\ self = NewRecord(0)
    /\ n_edits = 0
    /\ text = <<>>
    /\ out = Idle

NextRead ==
    \/ \E gain \in GainTokens : \E baseline \in BaselineTokens : \E rest \in TailTokens :
          PutSignalLine(SignalLineOf(gain, baseline, rest))
    \/ CallParseSignalLines

SpecRead == InitRead /\ [][NextRead]_vars

(***************************************************************************)
(* The functions of the read path, each on arguments of its own: out holds *)
(* the arguments a caller has put together, then the result of the call.   *)
(***************************************************************************)
\* the sequences of 1..n elements of S
SeqsOver(S, n) == UNION {[1..k -> S] : k \in 1..n}

\* record lines: well formed, well formed with characters after them that
\* the pattern does not take, and not of the form of a record line
ValidRecordLines == {"rec 1", "rec 2 360 2", "rec/2 1 250 3"}

RecordLineTails == {" !", "\tend"}

InvalidRecordLines == {"", "rec", "rec x", "!rec 1"}

RecordLineInputs ==
    ValidRecordLines \cup InvalidRecordLines
    \cup {l \o t : l \in ValidRecordLines, t \in RecordLineTails}

\* signal lines, likewise; a tab ends the signal name
ValidSignalLines ==
    {"a.dat 16", "a.dat 16 200", "a.dat 16 200/mV 12 5", "a.dat 16 200(-3)/mV 12 5",
     "a.dat 16 200(5)/mV 12 5 7 9 0 I", "b.dat 8x2:1+5 2.5(0)/uV 0 0 0 0 0 a b"}

NamedSignalLines ==
    {"a.dat 16 200(5)/mV 12 5 7 9 0 I", "b.dat 8x2:1+5 2.5(0)/uV 0 0 0 0 0 a b"}

SignalLineTails == {"\tx", "\t"}

InvalidSignalLines == {"", "a.dat", "a.dat x"}

SignalLineStock == {"a.dat 16 200/mV 12 5", "a.dat 16", "a.dat"}

SignalLinesInputs ==
    {<<l>> : l \in ValidSignalLines \cup InvalidSignalLines}
    \cup {<<l \o t>> : l \in NamedSignalLines, t \in SignalLineTails}
    \cup SeqsOver(SignalLineStock, MaxParsed)

\* segment lines, likewise
ValidSegmentLines == {"s1 100", "~ 5", "s-2~ 0"}

SegmentLineTails == {" junk", "x"}

InvalidSegmentLines == {"", "s1", "s1 x"}

SegmentLineStock == {"s1 100", "~ 5", "s1"}

SegmentLinesInputs ==
    {<<l>> : l \in ValidSegmentLines \cup InvalidSegmentLines}
    \cup {<<l \o t>> : l \in ValidSegmentLines, t \in SegmentLineTails}
    \cup SeqsOver(SegmentLineStock, MaxParsed)

\* time strings: the three shapes with and without fraction, values out of
\* range, and strings of no shape
TimeStrings ==
    {"12", "5", "59", "60", "61", "65", "123", "12.5", "12.000001", "12.1234567", "7.",
     "01:12", "1:2", "59:59", "60:00", "1:60", "01:12.25", ":", "1:",
     "00:01:12", "00:01:12.5", "23:59:59", "24:00:00", "1:2:3", "1:2:3.000004",
     "1:2:3:4", "1.2.3", "", "a", ".5"}

\* the lines of a header file
HeaderLineStock == {"rec 1 # note", "# c", "a.dat 16#x", " ", "rec 2", "  # d #e "}

HeaderTexts == SeqsOver(HeaderLineStock, MaxParsed)

\* the dicts given to get_field_default
FieldDicts ==
    {[f \in keys |-> CASE f = "fs" -> Some(PyInt(360))
                       [] f = "adc_zero" -> zero
                       [] f = "fmt" -> Some(fmt)] :
        keys \in SUBSET {"fs", "adc_zero", "fmt"}, zero \in {Some(5), None},
        fmt \in {"16", "8"}}

DefaultedFields ==
    DOMAIN WFDB_FIELDS \cup {"baseline", "init_value", "adc_res"}

Args(target, args) == [op |-> "args", target |-> target, args |-> args]

\* a caller puts the arguments of a call together
PutArgs(target, args) ==
    /\ out' = Args(target, args)
    /\ UNCHANGED <<RECORD_SPECS, SIGNAL_SPECS, SEGMENT_SPECS, self, n_edits, text>>

Called(target) == out.op = "args" /\ out.target = target

\* get_field_default(fields, field_name)
CallGetFieldDefault ==
    /\ Called("get_field_default")
    /\ LET r == GetFieldDefault(out.args.fields, out.args.field_name)
       IN  out' = [op |-> "get_field_default", args |-> out.args,
                   exc |-> r.exc, val |-> r.val]
    /\ UNCHANGED <<RECORD_SPECS, SIGNAL_SPECS, SEGMENT_SPECS, self, n_edits, text>>

\* _parse_record_line(record_line)
CallParseRecordLine ==
    /\ Called("_parse_record_line")
    /\ LET r == ParseRecordLine(out.args)
       IN  out' = [op |-> "_parse_record_line", args |-> out.args,
                   exc |-> r.exc, val |-> r.val]
    /\ UNCHANGED <<RECORD_SPECS, SIGNAL_SPECS, SEGMENT_SPECS, self, n_edits, text>>

\* _parse_signal_lines(signal_lines), the lines handed over as they are
CallParseSignalLinesOf ==
    /\ Called("_parse_signal_lines")
    /\ LET r == ParseSignalLines(SIGNAL_SPECS, out.args)
       IN  out' = [op |-> "_parse_signal_lines", args |-> out.args,
                   exc |-> r.exc, val |-> r.val]
    /\ UNCHANGED <<RECORD_SPECS, SIGNAL_SPECS, SEGMENT_SPECS, self, n_edits, text>>

\* _read_segment_lines(segment_lines)
CallReadSegmentLines ==
    /\ Called("_read_segment_lines")
    /\ LET r == ReadSegmentLines(out.args)
       IN  out' = [op |-> "_read_segment_lines", args |-> out.args,
                   exc |-> r.exc, val |-> r.val]
    /\ UNCHANGED <<RECORD_SPECS, SIGNAL_SPECS, SEGMENT_SPECS, self, n_edits, text>>

\* wfdb_strptime(time_string)
CallWfdbStrptime ==
    /\ Called("wfdb_strptime")
    /\ LET r == WfdbStrptime(out.args)
       IN  out' = [op |-> "wfdb_strptime", args |-> out.args,
                   exc |-> r.exc, val |-> r.val]
    /\ UNCHANGED <<RECORD_SPECS, SIGNAL_SPECS, SEGMENT_SPECS, self, n_edits, text>>

\* parse_header_content(header_content), header_content the lines joined
CallParseHeaderContent ==
    /\ Called("parse_header_content")
    /\ LET r == ParseHeaderContent(out.args)
       IN  out' = [op |-> "parse_header_content", args |-> out.args,
                   header_lines |-> r.header_lines, comment_lines |-> r.comment_lines]
    /\ UNCHANGED <<RECORD_SPECS, SIGNAL_SPECS, SEGMENT_SPECS, self, n_edits, text>>

\* streamheader(recordname, pbdir), the header file of the record holding
\* the lines
CallStreamHeader ==
    /\ Called("streamheader")
    /\ LET r == StreamHeader(out.args)
       IN  out' = [op |-> "streamheader", args |-> out.args,
                   header_lines |-> r.header_lines, comment_lines |-> r.comment_lines]
    /\ UNCHANGED <<RECORD_SPECS, SIGNAL_SPECS, SEGMENT_SPECS, self, n_edits, text>>

InitParse ==
    /\ RECORD_SPECS = RecordSpecsData
    /\ SIGNAL_SPECS = SignalSpecsData
    /\ SEGMENT_SPECS = SegmentSpecsData
    /\ self = NewRecord(0)
    /\ n_edits = 0
    /\ text = <<>>
    /\ out = Idle

NextParse ==
    \/ \E fields \in FieldDicts : \E field_name \in DefaultedFields :
          PutArgs("get_field_default", [fields |-> fields, field_name |-> field_name])
    \/ \E record_line \in RecordLineInputs : PutArgs("_parse_record_line", record_line)
    \/ \E signal_lines \in SignalLinesInputs : PutArgs("_parse_signal_lines", signal_lines)
    \/ \E segment_lines \in SegmentLinesInputs : PutArgs("_read_segment_lines", segment_lines)
    \/ \E time_string \in TimeStrings : PutArgs("wfdb_strptime", time_string)
    \/ \E lines \in HeaderTexts :
          \E target \in {"parse_header_content", "streamheader"} : PutArgs(target, lines)
    \/ CallGetFieldDefault
    \/ CallParseRecordLine
    \/ CallParseSignalLinesOf
    \/ CallReadSegmentLines
    \/ CallWfdbStrptime
    \/ CallParseHeaderContent
    \/ CallStreamHeader

SpecParse == InitParse /\ [][NextParse]_vars

(***************************************************************************)
(* Properties.  Helpers first: they state what a property is about without *)
(* going through the operators of the model of the code.                   *)
(***************************************************************************)
\* the channels of a Record, 1-based
Channels(e) == 1..e.n_sig[1]

\* every signal vector that is set has one slot per channel, and the
\* vectors every channel needs are set
VectorsMatchNSig(e) ==
    /\ \A f \in Names(SignalFieldNames) : e[f] # None => Len(e[f][1]) = e.n_sig[1]
    /\ \A f \in {"file_name", "fmt", "adc_gain", "baseline", "units"} : e[f] # None

\* a signal vector that is set and has not one slot per channel
WrongLength(e) ==
    {f \in Names(SignalFieldNames) : e[f] # None /\ Len(e[f][1]) # e.n_sig[1]}

\* two channels of one dat file with different formats
FmtConflict(e) ==
    \E a, b \in Channels(e) :
        /\ e.file_name[1][a] = e.file_name[1][b]
        /\ e.fmt[1][a] # e.fmt[1][b]

\* two channels of one dat file, both with a byte offset, the offsets differ
OffsetConflict(e) ==
    /\ e.byte_offset # None
    /\ \E a, b \in Channels(e) :
          /\ e.file_name[1][a] = e.file_name[1][b]
          /\ e.byte_offset[1][a] # None
          /\ e.byte_offset[1][b] # None
          /\ e.byte_offset[1][a] # e.byte_offset[1][b]

\* seg_name and seg_len have one slot per segment, every length is a number
SegmentsWellFormed(e) ==
    /\ e.n_seg # None /\ e.sig_len # None /\ e.seg_name # None /\ e.seg_len # None
    /\ Len(e.seg_name[1]) = e.n_seg[1]
    /\ Len(e.seg_len[1]) = e.n_seg[1]
    /\ \A i \in 1..Len(e.seg_len[1]) : e.seg_len[1][i] # None

\* the sum of the seg_len of the segments of the set idx
RECURSIVE TotalOver(_, _)
TotalOver(e, idx) ==
    IF idx = {} THEN 0
    ELSE LET i == CHOOSE j \in idx : TRUE
         IN  e.seg_len[1][i][1] + TotalOver(e, idx \ {i})

AllSegments(e) == 1..Len(e.seg_len[1])

Placeholders(e) == {i \in AllSegments(e) : e.seg_name[1][i] = Some("~")}

MultiCohesionChecked ==
    /\ out.op = "check_field_cohesion"
    /\ self.cls = "MultiRecord"
    /\ SegmentsWellFormed(self)

\* a signal field that is set has the field it depends on set as well
DependenciesSet(e) ==
    \A i \in 1..Len(SignalSpecsData) :
        LET row == SignalSpecsData[i]
        IN  (e[row.name] # None /\ row.dependency # None) => e[row.dependency[1]] # None

RecordCohesionChecked ==
    /\ out.op = "check_field_cohesion"
    /\ self.cls = "Record"
    /\ self.n_sig[1] > 0
    /\ VectorsMatchNSig(self)
    /\ DependenciesSet(self)

\* C2: calling get_write_fields twice on an entity (of either variant) that
\* was not modified in between returns the same result both times: the same
\* record field list and the same field-to-channel map (or the same
\* exception).
C2_SelectionIdempotent ==
    (out.op = "get_write_fields" /\ out.prev # None) => out.prev[1] = out.last

\* a second call in a row, on a Record with channels, after an assignment
C2_Witness ==
    /\ out.op = "get_write_fields" /\ out.prev # None
    /\ self.cls = "Record" /\ n_edits > 0
    /\ out.last.exc = NoExc /\ out.last.sig # None

\* C3: check_field_cohesion of a multi-segment record whose seg_name and
\* seg_len have length n_seg passes when the sum of all seg_len equals
\* sig_len and raises a ValueError when the sum differs from sig_len.
C3_MultiCohesion ==
    MultiCohesionChecked =>
        /\ TotalOver(self, AllSegments(self)) = self.sig_len[1] => out.exc = NoExc
        /\ TotalOver(self, AllSegments(self)) # self.sig_len[1] =>
              out.exc.type = "ValueError"

\* check_field_cohesion has raised on a sum that differs from sig_len
C3_Witness ==
    /\ MultiCohesionChecked
    /\ self.n_seg[1] = 2
    /\ TotalOver(self, AllSegments(self)) # self.sig_len[1]
    /\ out.exc.type = "ValueError"

\* C4, as stated: a multi-segment record passes the cohesion check exactly
\* when the sum of seg_len over the segments whose seg_name is not "~"
\* equals sig_len; the length of a "~" segment does not count.
C4_PlaceholdersNotCounted ==
    MultiCohesionChecked =>
        (out.exc = NoExc <=>
            TotalOver(self, AllSegments(self) \ Placeholders(self)) = self.sig_len[1])

\* C4, amended: the length of a "~" segment counts like any other: a record
\* with a "~" segment passes the cohesion check exactly when the sum of
\* seg_len over all its segments, the "~" ones included, equals sig_len.
C4_PlaceholdersCounted ==
    (MultiCohesionChecked /\ Placeholders(self) # {}) =>
        (out.exc = NoExc <=> TotalOver(self, AllSegments(self)) = self.sig_len[1])

\* check_field_cohesion has passed a record with a "~" segment of length > 0
C4_Witness ==
    /\ MultiCohesionChecked
    /\ \E i \in Placeholders(self) : self.seg_len[1][i][1] > 0
    /\ out.exc = NoExc

\* C5, as stated: in a write of a Record with n_sig > 0, a signal vector
\* whose length differs from n_sig is reported by check_field_cohesion, as
\* a ValueError that names such a field; the vectors are not indexed per
\* channel before that check, so the write does not end earlier than in the
\* cohesion check on account of the vector.
C5_LengthCheckFirst ==
    (/\ out.op = "wrheader"
     /\ self.cls = "Record"
     /\ self.n_sig[1] > 0
     /\ WrongLength(self) # {}
     /\ out.trace # SubSeq(WriteSteps, 1, 2)
     /\ out.exc # NoExc) =>
        /\ out.exc.type = "ValueError"
        /\ out.exc.at = "check_field_cohesion"
        /\ out.exc.about \in WrongLength(self)

Cohesive(e) ==
    IF e.cls = "Record"
    THEN e.n_sig[1] > 0 /\ WrongLength(e) = {} /\ ~FmtConflict(e) /\ ~OffsetConflict(e)
    ELSE SegmentsWellFormed(e) /\ TotalOver(e, AllSegments(e)) = e.sig_len[1]

\* C8: a wrheader call of either variant goes through selection, field
\* checks, cohesion check and serialization in this order; lines reach the
\* writer only when every step before has returned, so when the cohesion
\* check raises (or the record is not cohesive) nothing is handed over.
C8_WriteOrder ==
    out.op = "wrheader" =>
        /\ \E k \in 1..Len(WriteSteps) : out.trace = SubSeq(WriteSteps, 1, k)
        /\ out.handed => (out.trace = WriteSteps /\ out.exc = NoExc /\ Cohesive(self))
        /\ ~out.handed => out.lines = <<>>
        /\ out.exc.at = "check_field_cohesion" =>
              (~out.handed /\ out.trace = SubSeq(WriteSteps, 1, 3))

\* a write of a Record that the cohesion check has aborted
C8_Witness ==
    /\ out.op = "wrheader"
    /\ self.cls = "Record"
    /\ out.exc.at = "check_field_cohesion"
    /\ ~out.handed

\* the adc_gain tokens that spell zero, and the value of the others
ZeroGainTokens == {"0", "0.0", "-0", "-0.0", "0e2", "00."}

GainTokenValue(token) ==
    CASE token = "2.5" -> PyFloat(25, 1)
      [] token = "200" -> PyFloat(200, 0)
      [] token = "1e2" -> PyFloat(100, 0)
      [] token = "-2"  -> PyFloat(-2, 0)

\* the adc_gain token of a signal line built from the tokens
GainTokenOf(line) ==
    CHOOSE gain \in GainTokens :
        \E baseline \in BaselineTokens : \E rest \in TailTokens :
            line = SignalLineOf(gain, baseline, rest)

\* C9: when signal lines are read, a channel whose adc_gain token is present
\* and numerically zero gets the adc_gain 200.0, and a channel whose token is
\* present and not zero gets the value of its token.
C9_GainZeroFolding ==
    (out.op = "_parse_signal_lines" /\ out.exc = NoExc) =>
        \A ch \in 1..Len(text) :
            LET token == GainTokenOf(text[ch])
                adc_gain == out.val[1].adc_gain[ch]
            IN  /\ token \in ZeroGainTokens => adc_gain = Some(PyFloat(200, 0))
                /\ token \in {"2.5", "200", "1e2", "-2"} =>
                      adc_gain = Some(GainTokenValue(token))

\* a line with a zero adc_gain token has been read
C9_Witness ==
    /\ out.op = "_parse_signal_lines" /\ out.exc = NoExc
    /\ \E ch \in 1..Len(text) :
          /\ GainTokenOf(text[ch]) \in ZeroGainTokens
          /\ out.val[1].adc_gain[ch] = Some(PyFloat(200, 0))

\* the fs token of a record line
FsTokenOf(record_line) == Match(rx_record, record_line, 9)[1][4]

\* C10, as stated: the record line written for a record of either variant
\* whose fs is a float with an integral value (360.0) holds the frequency
\* without a fractional part ("360").
C10_IntegralFs ==
    (/\ out.op = "wrheader"
     /\ out.handed
     /\ self.fs[1].isfloat
     /\ self.fs[1].e = 0) =>
        ~HasChar(FsTokenOf(out.lines[1]), ".")

\* the value a field of the entity holds for the channel (1-based)
ChannelValue(e, field, ch) == IF e[field] = None THEN None ELSE e[field][1][ch]

\* C1, as stated: the lines written for a Record whose write-required
\* fields are set and whose cohesion checks pass parse back, with the
\* record-line parser and the signal-line parser, into the fields of the
\* Record: every record field and every signal field of every channel.
C1_RoundTrip ==
    out.op = "read_back" =>
        /\ out.record.exc = NoExc
        /\ \A f \in Names(RecordFieldNames) \ {"n_seg"} : out.record.val[1][f] = self[f]
        /\ out.signals.exc = NoExc
        /\ \A f \in Names(SignalFieldNames) : \A ch \in Channels(self) :
              out.signals.val[1][f][ch] = ChannelValue(self, f, ch)

\* the call of get_field_default for the field has ended
DefaultResolved(field_name) ==
    out.op = "get_field_default" /\ out.args.field_name = field_name

\* the dict of the call holds a value for the field
Known(field) == field \in DOMAIN out.args.fields /\ out.args.fields[field] # None

\* C11, as stated: an absent sampling frequency resolves to 250 and an absent
\* baseline resolves to the adc_zero of the channel when that is known, in
\* get_field_default and in the line parsers alike.
C11_DefaultsResolved ==
    /\ (DefaultResolved("fs") /\ "fs" \notin DOMAIN out.args.fields) =>
          (out.exc = NoExc /\ out.val = Some(PyInt(250)))
    /\ (DefaultResolved("baseline") /\ Known("adc_zero")) =>
          (out.exc = NoExc /\ out.val = out.args.fields.adc_zero)
    /\ (out.op = "_parse_signal_lines" /\ out.args = <<"a.dat 16 200/mV 12 5">>) =>
          (out.exc = NoExc /\ out.val[1].baseline = <<Some(5)>>)
    /\ (out.op = "_parse_record_line" /\ out.args = "rec 1") =>
          (out.exc = NoExc /\ out.val[1].fs = Some(PyInt(250)))

\* C12, as stated: a default whose dependency is missing is fatal:
\* counter_freq without fs, and baseline or init_value without adc_zero, end
\* in HeaderSyntaxError, in get_field_default and in the signal-line parser
\* (no baseline of 0 is filled in).
C12_MissingDependencyFatal ==
    /\ (DefaultResolved("counter_freq") /\ "fs" \notin DOMAIN out.args.fields) =>
          out.exc.type = "HeaderSyntaxError"
    /\ ((DefaultResolved("baseline") \/ DefaultResolved("init_value"))
            /\ "adc_zero" \notin DOMAIN out.args.fields) =>
          out.exc.type = "HeaderSyntaxError"
    /\ (out.op = "_parse_signal_lines" /\ out.args \in {<<"a.dat 16">>, <<"a.dat 16 200">>}) =>
          out.exc.type = "HeaderSyntaxError"

\* the lines made of a well-formed line and characters the pattern leaves
RecordLinesWithTail == {l \o t : l \in ValidRecordLines, t \in RecordLineTails}

SignalLinesWithTail == {l \o t : l \in NamedSignalLines, t \in SignalLineTails}

SegmentLinesWithTail == {l \o t : l \in ValidSegmentLines, t \in SegmentLineTails}

\* a line parser has ended on one line that is a well-formed line with a tail
ParsedWithTail ==
    \/ out.op = "_parse_record_line" /\ out.args \in RecordLinesWithTail
    \/ out.op = "_parse_signal_lines" /\ Len(out.args) = 1
          /\ out.args[1] \in SignalLinesWithTail
    \/ out.op = "_read_segment_lines" /\ Len(out.args) = 1
          /\ out.args[1] \in SegmentLinesWithTail

\* the name captures of the well-formed line that line starts with
LeadingName(line) ==
    CASE \E t \in SignalLineTails : line = "a.dat 16 200(5)/mV 12 5 7 9 0 I" \o t
            -> <<"a.dat", "I">>
      [] \E t \in SignalLineTails : line = "b.dat 8x2:1+5 2.5(0)/uV 0 0 0 0 0 a b" \o t
            -> <<"b.dat", "a b">>
      [] \E t \in SegmentLineTails : line = "s1 100" \o t  -> <<"s1", 100>>
      [] \E t \in SegmentLineTails : line = "~ 5" \o t     -> <<"~", 5>>
      [] \E t \in SegmentLineTails : line = "s-2~ 0" \o t  -> <<"s-2~", 0>>

\* C13, as stated: the three patterns are matched against the whole line; a
\* well-formed line followed by characters that the pattern cannot take is
\* rejected with HeaderSyntaxError.
C13_WholeLineMatch ==
    ParsedWithTail => out.exc.type = "HeaderSyntaxError"

\* C13, amended: the three patterns are matched from the start of the line
\* only; a well-formed line followed by characters that the pattern cannot
\* take matches, no HeaderSyntaxError is raised, and the signal-line and
\* segment-line parsers return the fields of the well-formed line.
C13_PrefixMatch ==
    ParsedWithTail =>
        /\ out.exc.type # "HeaderSyntaxError"
        /\ out.op = "_parse_signal_lines" =>
              /\ out.exc = NoExc
              /\ out.val[1].file_name = <<Some(LeadingName(out.args[1])[1])>>
              /\ out.val[1].sig_name = <<Some(LeadingName(out.args[1])[2])>>
        /\ out.op = "_read_segment_lines" =>
              /\ out.exc = NoExc
              /\ out.val[1].seg_name = <<Some(LeadingName(out.args[1])[1])>>
              /\ out.val[1].seg_len = <<Some(LeadingName(out.args[1])[2])>>

\* a segment line with a tail has been read
C13_Witness ==
    /\ out.op = "_read_segment_lines"
    /\ out.args = <<"s1 100 junk">>
    /\ out.exc = NoExc
    /\ out.val[1].seg_len = <<Some(100)>>

\* sub is a part of s
Contains(s, sub) ==
    \E i \in 1..(Len(s) + 1) : i + Len(sub) - 1 <= Len(s) /\ SubSeq(s, i, i + Len(sub) - 1) = sub

\* the first line (if any) that is not of the form the parser expects
Offending(lines, invalid) ==
    LET bad == {i \in 1..Len(lines) : lines[i] \in invalid}
    IN  IF bad = {} THEN <<>> ELSE <<lines[CHOOSE i \in bad : \A j \in bad : i <= j]>>

\* the offending line of the call that has ended
OffendingLine ==
    CASE out.op = "_parse_record_line"  -> Offending(<<out.args>>, InvalidRecordLines)
      [] out.op = "_parse_signal_lines" -> Offending(out.args, InvalidSignalLines)
      [] out.op = "_read_segment_lines" -> Offending(out.args, InvalidSegmentLines)
      [] OTHER -> <<>>

SyntaxMessage ==
    CASE out.op = "_parse_record_line"  -> "Invalid syntax in record line"
      [] out.op = "_parse_signal_lines" -> "invalid syntax in signal line"
      [] out.op = "_read_segment_lines" -> "invalid syntax in segment line"

\* C14, as stated: a line parser given a line that does not match its
\* pattern fails with a HeaderSyntaxError that carries the raw line, and
\* returns nothing.
C14_SyntaxErrorCarriesLine ==
    OffendingLine # <<>> =>
        /\ out.exc.type = "HeaderSyntaxError"
        /\ Contains(out.exc.about, OffendingLine[1])
        /\ out.val = None

\* C14, amended: a line parser given a line that does not match its pattern
\* fails with a HeaderSyntaxError whose message names the kind of line and
\* does not carry the raw line, and returns nothing, also when lines before
\* the offending one were well formed.
C14_SyntaxErrorFixedMessage ==
    OffendingLine # <<>> =>
        /\ out.exc.type = "HeaderSyntaxError"
        /\ out.exc.about = SyntaxMessage
        /\ out.val = None

\* the signal-line parser has failed on the second of two lines
C14_Witness ==
    /\ out.op = "_parse_signal_lines"
    /\ out.args = <<"a.dat 16", "a.dat">>
    /\ out.exc.type = "HeaderSyntaxError"
    /\ out.val = None

\* the time of the time strings that are of one of the three shapes
ShapedTimes ==
    [s \in {"12", "5", "59", "12.5", "12.000001", "01:12", "1:2", "59:59", "01:12.25",
            "00:01:12", "00:01:12.5", "23:59:59", "1:2:3", "1:2:3.000004"} |->
        CASE s = "12"           -> Time(0, 0, 12, 0)
          [] s = "5"            -> Time(0, 0, 5, 0)
          [] s = "59"           -> Time(0, 0, 59, 0)
          [] s = "12.5"         -> Time(0, 0, 12, 500000)
          [] s = "12.000001"    -> Time(0, 0, 12, 1)
          [] s = "01:12"        -> Time(0, 1, 12, 0)
          [] s = "1:2"          -> Time(0, 1, 2, 0)
          [] s = "59:59"        -> Time(0, 59, 59, 0)
          [] s = "01:12.25"     -> Time(0, 1, 12, 250000)
          [] s = "00:01:12"     -> Time(0, 1, 12, 0)
          [] s = "00:01:12.5"   -> Time(0, 1, 12, 500000)
          [] s = "23:59:59"     -> Time(23, 59, 59, 0)
          [] s = "1:2:3"        -> Time(1, 2, 3, 0)
          [] s = "1:2:3.000004" -> Time(1, 2, 3, 4)]

\* C15: wfdb_strptime reads a string without colon as seconds, with one
\* colon as minutes:seconds, with two colons as hours:minutes:seconds, and
\* reads a fraction of the seconds exactly when the string holds a ".":
\* "12", "01:12", "00:01:12.5" give 00:00:12, 00:01:12, 00:01:12.5.
C15_TimeShapes ==
    (out.op = "wfdb_strptime" /\ out.args \in DOMAIN ShapedTimes) =>
        (out.exc = NoExc /\ out.val = Some(ShapedTimes[out.args]))

\* a minutes:seconds string has been parsed
C15_Witness ==
    /\ out.op = "wfdb_strptime"
    /\ out.args = "01:12"
    /\ out.val = Some(Time(0, 1, 12, 0))

\* the header line and the comment that a line with a "#" after its start
\* is made of
InlineSplit ==
    [l \in {"rec 1 # note", "a.dat 16#x"} |->
        CASE l = "rec 1 # note" -> <<"rec 1 ", "# note">>
          [] l = "a.dat 16#x"   -> <<"a.dat 16", "#x">>]

\* C17, as stated: parse_header_content and streamheader both cut a header
\* line at its first "#": the part before it is the header line, the part
\* from the "#" on is added to the comment lines.
C17_InlineCommentSplit ==
    (out.op \in {"parse_header_content", "streamheader"} /\ Len(out.args) = 1
        /\ out.args[1] \in DOMAIN InlineSplit) =>
        /\ out.header_lines = <<InlineSplit[out.args[1]][1]>>
        /\ out.comment_lines = <<InlineSplit[out.args[1]][2]>>

(***************************************************************************)
(* The order of the rendered lines.                                        *)
(***************************************************************************)
\* line starts with prefix
StartsWith(line, prefix) ==
    Len(prefix) <= Len(line) /\ SubSeq(line, 1, Len(prefix)) = prefix

\* the number of lines after the record line that describe a channel or a
\* segment
BodyLines(e) == IF e.cls = "Record" THEN e.n_sig[1] ELSE e.n_seg[1]

\* what line i of the body starts with: the file name and format of the
\* channel, or the name and length of the segment
BodyLineStart(e, i) ==
    IF e.cls = "Record"
    THEN StrOf("str", e.file_name[1][i]) \o " " \o StrOf("str", e.fmt[1][i])
    ELSE StrOf("str", e.seg_name[1][i]) \o " " \o StrOf("int", e.seg_len[1][i])

\* C16: the lines wrheader hands to the writer are one record line, then
\* one line per channel in channel order (Record) or per segment in segment
\* order (MultiRecord), then "# " + comment for each comment in order; there
\* are comment lines only when comments are set.
C16_LineOrder ==
    (out.op = "wrheader" /\ out.handed) =>
        LET n == BodyLines(self)
            k == IF self.comments = None THEN 0 ELSE Len(self.comments[1])
        IN  /\ Len(out.lines) = 1 + n + k
            /\ StartsWith(out.lines[1], self.record_name[1])
            /\ \A i \in 1..n : StartsWith(out.lines[1 + i], BodyLineStart(self, i))
            /\ \A j \in 1..k : out.lines[1 + n + j] = "# " \o self.comments[1][j]
            /\ \A i \in 1..(1 + n) : ~StartsWith(out.lines[i], "#")

\* a Record of two channels in two files and two comments has been written
C16_Witness ==
    /\ out.op = "wrheader"
    /\ out.handed
    /\ self.cls = "Record"
    /\ self.n_sig = Some(2)
    /\ self.comments = Some(<<"n1", "n2">>)
    /\ Len(out.lines) = 5

(***************************************************************************)
(* The selected fields.                                                    *)
(***************************************************************************)
\* the field and the fields its dependency links lead to; a name outside the
\* table (comments) has no dependency
RECURSIVE Ancestors(_, _)
Ancestors(table, f) ==
    IF ~InIndex(table, f) THEN {f}
    ELSE LET dep == Loc(table, f).dependency
         IN  {f} \cup (IF dep = None THEN {} ELSE Ancestors(table, dep[1]))

\* the closure of a seed set under the dependency link
Closure(table, seeds) == UNION {Ancestors(table, f) : f \in seeds}

\* the record table of the entity: a Record has no n_seg
RecordTable(e) ==
    IF e.cls = "MultiRecord" THEN RecordSpecsData ELSE Drop(RecordSpecsData, "n_seg")

\* the record fields that are write-required or set, and comments when set
RecordSeeds(e) ==
    {RecordTable(e)[i].name : i \in {j \in 1..Len(RecordTable(e)) :
        RecordTable(e)[j].write_required \/ e[RecordTable(e)[j].name] # None}}
    \cup (IF e.comments # None THEN {"comments"} ELSE {})

\* the signal fields that are write-required or set for channel ch
SignalSeeds(e, ch) ==
    {SignalSpecsData[i].name : i \in {j \in 1..Len(SignalSpecsData) :
        \/ SignalSpecsData[j].write_required
        \/ /\ e[SignalSpecsData[j].name] # None
           /\ ch + 1 <= Len(e[SignalSpecsData[j].name][1])
           /\ e[SignalSpecsData[j].name][1][ch + 1] # None}}

\* the fields the signal map lists channel ch for
ListedFor(map, ch) == {f \in DOMAIN map : InList(map[f], ch)}

\* C18: the names get_write_subset returns are the closure, under the
\* dependency link, of the fields that are write-required or set: for the
\* record family as a whole, for the signal family channel by channel.
C18_WriteSetClosure ==
    (out.op = "get_write_subset" /\ out.exc = NoExc) =>
        IF out.spec_type = "record"
        THEN Names(out.val) = Closure(RecordTable(self), RecordSeeds(self))
        ELSE \A ch \in 0..(self.n_sig[1] - 1) :
                ListedFor(out.val, ch) = Closure(SignalSpecsData, SignalSeeds(self, ch))

\* base_counter is set and counter_freq is not: counter_freq is selected as
\* its ancestor
C18_Witness ==
    /\ out.op = "get_write_subset"
    /\ out.exc = NoExc
    /\ out.spec_type = "record"
    /\ self.base_counter # None
    /\ self.counter_freq = None
    /\ InList(out.val, "counter_freq")

\* C19: the record write-field list that get_write_fields returns holds each
\* name, comments included, at most once.
C19_NoRepeats ==
    (out.op = "get_write_fields" /\ out.last.exc = NoExc) =>
        \A i, j \in 1..Len(out.last.rec) :
            out.last.rec[i] = out.last.rec[j] => i = j

\* C20: in the signal map, channel ch is listed for field f exactly when f
\* is in the closure of the fields write-required or set for ch; each list
\* is non-empty and strictly ascending, and every key is a signal field.
C20_PerChannelMerge ==
    (out.op = "get_write_subset" /\ out.exc = NoExc /\ out.spec_type = "signal") =>
        LET n == self.n_sig[1]
        IN  /\ DOMAIN out.val \subseteq Names(SignalFieldNames)
            /\ \A f \in Names(SignalFieldNames) : \A ch \in 0..(n - 1) :
                  (f \in DOMAIN out.val /\ InList(out.val[f], ch))
                  <=> f \in Closure(SignalSpecsData, SignalSeeds(self, ch))
            /\ \A f \in DOMAIN out.val :
                  /\ Len(out.val[f]) > 0
                  /\ \A i \in 1..Len(out.val[f]) : out.val[f][i] \in 0..(n - 1)
                  /\ \A i \in 1..(Len(out.val[f]) - 1) : out.val[f][i] < out.val[f][i + 1]

\* skew is set on one channel of two: it lists that channel only, while fmt
\* lists both
C20_Witness ==
    /\ out.op = "get_write_subset"
    /\ out.exc = NoExc
    /\ out.spec_type = "signal"
    /\ self.n_sig = Some(2)
    /\ self.skew = Some(<<Some(1), None>>)
    /\ "skew" \in DOMAIN out.val
    /\ out.val["skew"] = <<0>>
    /\ out.val["fmt"] = <<0, 1>>

(***************************************************************************)
(* The coercion of the record line.                                        *)
(***************************************************************************)
\* the fields of a record line, with every field the line leaves out at None
RecordFieldsOf(record_name, n_seg, n_sig, fs, sig_len) ==
    [f \in Names(RecordFieldNames) |->
        CASE f = "record_name" -> Some(record_name)
          [] f = "n_seg"       -> n_seg
          [] f = "n_sig"       -> Some(n_sig)
          [] f = "fs"          -> Some(fs)
          [] f = "sig_len"     -> sig_len
          [] OTHER             -> None]

\* what each well-formed record line says: an empty capture is the read
\* default of its own field, another capture the value of its own kind
RecordLineFields ==
    [line \in ValidRecordLines |->
        CASE line = "rec 1"         -> RecordFieldsOf("rec", None, 1, PyInt(250), None)
          [] line = "rec 2 360 2"   -> RecordFieldsOf("rec", None, 2, PyInt(360), Some(2))
          [] line = "rec/2 1 250 3" -> RecordFieldsOf("rec", Some(2), 1, PyInt(250), Some(3))]

\* C21: _parse_record_line completes on a well-formed record line and gives
\* every field the read default (empty capture) or the cast value (other
\* capture) of that same field.
C21_RecordLineCoercion ==
    (out.op = "_parse_record_line" /\ out.args \in ValidRecordLines) =>
        /\ out.exc = NoExc
        /\ out.val = Some(RecordLineFields[out.args])

(***************************************************************************)
(* The delimiters of the rendered lines.                                   *)
(***************************************************************************)
\* the text of a record field's value in the record line of the entity
ValueText(e, f) ==
    IF e.cls = "Record" THEN StringField(e, f) ELSE StrOf(KindOf(f), e[f])

\* the written fields of the table from row i on, in declaration order, each
\* after its delimiter, base_counter closed by ")"
RECURSIVE DelimitedFrom(_, _, _, _)
DelimitedFrom(e, table, written, i) ==
    IF i > Len(table) THEN ""
    ELSE (IF table[i].name \in written
          THEN table[i].delimiter \o ValueText(e, table[i].name)
               \o (IF table[i].name = "base_counter" THEN ")" ELSE "")
          ELSE "")
         \o DelimitedFrom(e, table, written, i + 1)

\* C22: the record line of either variant is its written fields in
\* declaration order, each after its delimiter, base_counter as "(" value
\* ")"; a signal line has one "(" and one ")" when baseline is written for
\* the channel and none otherwise.
C22_Delimiters ==
    (out.op = "wrheader" /\ out.handed) =>
        /\ out.lines[1] = DelimitedFrom(self, RecordSpecsData,
                              Closure(RecordTable(self), RecordSeeds(self)), 1)
        /\ self.cls = "Record" =>
              \A ch \in 0..(self.n_sig[1] - 1) :
                 LET k == IF "baseline" \in Closure(SignalSpecsData, SignalSeeds(self, ch))
                          THEN 1 ELSE 0
                 IN  /\ CountChar(out.lines[ch + 2], "(") = k
                     /\ CountChar(out.lines[ch + 2], ")") = k

(***************************************************************************)
(* The defaults that set_defaults fills in.                                *)
(***************************************************************************)
\* the write default of a field in the tables, None when it has none
WriteDefaultOf(f) ==
    IF InIndex(RecordSpecsData, f) THEN Loc(RecordSpecsData, f).write_default
    ELSE IF InIndex(SignalSpecsData, f) THEN Loc(SignalSpecsData, f).write_default
    ELSE None

\* the attribute that holds the write default d of field f: the value for a
\* record field, one value per channel for a signal field
DefaultAttribute(e, f, d) ==
    IF InIndex(SignalSpecsData, f) THEN Some(Filled(e.n_sig[1], d))
    ELSE IF f = "base_time" THEN Some(TimeText(d))
    ELSE Some(d)

\* the names of the write-field set that get_write_fields returned
WriteSet(w) ==
    Names(w.rec) \cup (IF w.sig = None THEN {} ELSE DOMAIN w.sig[1])

\* C24: after set_defaults has returned, a field of the write-field set that
\* was None and has a write default holds that default, every other field is
\* as it was, and a second call in a row changes nothing.
C24_DefaultsFillGaps ==
    (out.op = "set_defaults" /\ out.exc = NoExc) =>
        /\ \A f \in AllFieldNames :
              IF /\ f \in WriteSet(out.fields)
                 /\ out.before[f] = None
                 /\ WriteDefaultOf(f) # None
              THEN self[f] = DefaultAttribute(out.before, f, WriteDefaultOf(f)[1])
              ELSE self[f] = out.before[f]
        /\ out.calls = 2 => self = out.before

(***************************************************************************)
(* The shared tables.                                                      *)
(***************************************************************************)
\* C23: whatever was called, RECORD_SPECS, SIGNAL_SPECS and SEGMENT_SPECS
\* are the tables the module built; the n_seg row that a selection on a
\* Record drops is dropped from a copy.
C23_TablesUnchanged ==
    /\ RECORD_SPECS = RecordSpecsData
    /\ SIGNAL_SPECS = SignalSpecsData
    /\ SEGMENT_SPECS = SegmentSpecsData

\* a Record has selected its record fields, without n_seg, and the shared
\* table still has the n_seg row
C23_Witness ==
    /\ self.cls = "Record"
    /\ out.op = "get_write_subset"
    /\ out.spec_type = "record"
    /\ out.exc = NoExc
    /\ ~InList(out.val, "n_seg")
    /\ InIndex(RECORD_SPECS, "n_seg")

(***************************************************************************)
(* A Record without signals.                                               *)
(***************************************************************************)
\* C25: on a Record with n_sig = 0, get_write_fields, set_defaults and
\* wrheader complete without an exception, no signal field is selected, and
\* the lines handed to the writer are the record line followed by the
\* comment lines only.
C25_NoSignalsWritable ==
    (self.cls = "Record" /\ self.n_sig = Some(0)) =>
        /\ out.op = "get_write_fields" =>
              out.last.exc = NoExc /\ out.last.sig = None
        /\ out.op = "set_defaults" => out.exc = NoExc
        /\ out.op = "wrheader" =>
              /\ out.exc = NoExc
              /\ out.handed
              /\ LET k == IF self.comments = None THEN 0 ELSE Len(self.comments[1])
                 IN  /\ Len(out.lines) = 1 + k
                     /\ \A j \in 1..k : out.lines[1 + j] = "# " \o self.comments[1][j]

(***************************************************************************)
(* n_seg.                                                                  *)
(***************************************************************************)
\* the record write fields in the result of the call, <<>> when the call
\* has no such result
SelectedRecordFields ==
    IF out.op = "get_write_fields" /\ out.last.exc = NoExc THEN out.last.rec
    ELSE IF out.op = "get_write_subset" /\ out.exc = NoExc /\ out.spec_type = "record"
    THEN out.val
    ELSE <<>>

\* C26: the record write fields of a Record never hold n_seg and its record
\* line goes from the record name straight to n_sig; the write fields of a
\* MultiRecord hold n_seg, and seg_name and seg_len as well when they come
\* from get_write_fields, and its record line has the "/" n_seg part.
C26_NSegOnlyMulti ==
    /\ self.cls = "Record" => ~InList(SelectedRecordFields, "n_seg")
    /\ (self.cls = "MultiRecord" /\ SelectedRecordFields # <<>>) =>
          InList(SelectedRecordFields, "n_seg")
    /\ (self.cls = "MultiRecord" /\ out.op = "get_write_fields" /\ out.last.exc = NoExc) =>
          InList(out.last.rec, "seg_name") /\ InList(out.last.rec, "seg_len")
    /\ (out.op = "wrheader" /\ out.handed) =>
          IF self.cls = "Record"
          THEN StartsWith(out.lines[1],
                          self.record_name[1] \o " " \o IntStr(self.n_sig[1]))
          ELSE StartsWith(out.lines[1],
                          self.record_name[1] \o "/" \o IntStr(self.n_seg[1]) \o " ")

\* a Record has been written: its record line starts with "rec 2"
C26_Witness ==
    /\ self.cls = "Record"
    /\ out.op = "wrheader"
    /\ out.handed
    /\ StartsWith(out.lines[1], "rec 2 ")

(***************************************************************************)
(* The dependency walks.                                                   *)
(***************************************************************************)
\* every dependency of the table is None or a field declared earlier in it
DeclaredEarlier(table) ==
    \A i \in 1..Len(table) :
        \/ table[i].dependency = None
        \/ \E j \in 1..(i - 1) : table[j].name = table[i].dependency[1]

\* the walk from every field of the table ends at the first field of the
\* table, after at most as many fields as the table has
WalksEndAtFirst(table) ==
    \A i \in 1..Len(table) :
        LET walk == DependencyChain(table, table[i].name)
        IN  /\ Len(walk) <= Len(table)
            /\ walk[1] = table[i].name
            /\ walk[Len(walk)] = table[1].name

\* C27: in the three tables, and in the record table without n_seg, every
\* dependency is None or a field declared earlier, and the walk from every
\* field ends at the first field of its table.
C27_WalksTerminate ==
    /\ DeclaredEarlier(RECORD_SPECS)
    /\ DeclaredEarlier(Drop(RECORD_SPECS, "n_seg"))
    /\ DeclaredEarlier(SIGNAL_SPECS)
    /\ DeclaredEarlier(SEGMENT_SPECS)
    /\ WalksEndAtFirst(RECORD_SPECS)
    /\ WalksEndAtFirst(Drop(RECORD_SPECS, "n_seg"))
    /\ WalksEndAtFirst(SIGNAL_SPECS)
    /\ WalksEndAtFirst(SEGMENT_SPECS)

\* the selection on a Record with base_date set has walked from base_date
\* over base_time, sig_len, fs and n_sig to record_name
C27_Witness ==
    /\ self.cls = "Record"
    /\ self.base_date # None
    /\ self.base_time = None
    /\ out.op = "get_write_subset"
    /\ out.spec_type = "record"
    /\ out.exc = NoExc
    /\ SubSeq(out.val, 1, 6)
         = <<"base_date", "base_time", "sig_len", "fs", "n_sig", "record_name">>

=============================================================================
